---- MODULE Spec2Model ----
(***************************************************************************)
(* A model of the CHIP-8 interpreter core (src/src/chip8.h,                *)
(* src/src/chip8.cpp): the machine state of class Chip8, its public        *)
(* operations and the sixteen opcode handlers of emulateCycle.             *)
(*                                                                         *)
(* Representation.  memory_ and frameBuffer_ are std::array<uint8_t, N>.   *)
(* They are held as functions whose domain is the set of cells holding a   *)
(* nonzero byte; a cell outside the domain holds 0.  MemAt and PixelAt     *)
(* read a cell, WriteCell writes one and keeps the representation          *)
(* canonical, so that two equal arrays are always the same value.          *)
(* registers_, stack_ and keyboard_ are total functions on 0..15.          *)
(* lastErrorMessage_ is not modelled: only the error code is.              *)
(***************************************************************************)
EXTENDS Integers, Sequences, FiniteSets, TLC

VARIABLES
    memory_,          \* std::array<uint8_t, 4096>, nonzero cells only
    registers_,       \* std::array<uint8_t, 16>
    stack_,           \* std::array<uint16_t, 16>
    frameBuffer_,     \* std::array<uint8_t, 2048>, nonzero cells only
    keyboard_,        \* std::array<uint8_t, 16>
    indexRegister_,   \* uint16_t
    stackPointer_,    \* uint8_t
    delayTimer_,      \* uint8_t
    soundTimer_,      \* uint8_t
    programCounter_,  \* uint16_t
    opcode_,          \* uint16_t
    drawFlag_,        \* bool
    lastError_,       \* ErrorCode
    call,             \* the last public operation: its name, arguments, result
    pre,              \* the machine as it was when that operation was entered,
                      \* and the operation before it
    nops,             \* number of operations performed so far
    history           \* where a run is recorded, the machine each operation
                      \* was entered in and the operation, oldest first

vars == <<memory_, registers_, stack_, frameBuffer_, keyboard_, indexRegister_,
          stackPointer_, delayTimer_, soundTimer_, programCounter_, opcode_,
          drawFlag_, lastError_, call, pre, nops, history>>

----------------------------------------------------------------------------
(* Program constants, chip8.h lines 11-19.                                 *)

MEMORY_SIZE == 4096
REGISTER_COUNT == 16
STACK_SIZE == 16
DISPLAY_WIDTH == 64
DISPLAY_HEIGHT == 32
DISPLAY_SIZE == DISPLAY_WIDTH * DISPLAY_HEIGHT
KEYBOARD_SIZE == 16
ROM_START_ADDRESS == 512
FONT_SET_SIZE == 80

(* chip8.cpp lines 21-38; FONT_SET[i + 1] is the C++ FONT_SET[i].          *)
FONT_SET ==
    << 240, 144, 144, 144, 240,
        32,  96,  32,  32, 112,
       240,  16, 240, 128, 240,
       240,  16, 240,  16, 240,
       144, 144, 240,  16,  16,
       240, 128, 240,  16, 240,
       240, 128, 240, 144, 240,
       240,  16,  32,  64,  64,
       240, 144, 240, 144, 240,
       240, 144, 240,  16, 240,
       240, 144, 240, 144, 144,
       224, 144, 224, 144, 224,
       240, 128, 128, 128, 240,
       224, 144, 144, 144, 224,
       240, 128, 240, 128, 240,
       240, 128, 240, 128, 128 >>

(* enum class ErrorCode, chip8.h lines 37-44.                              *)
None == "None"
StackOverflow == "StackOverflow"
StackUnderflow == "StackUnderflow"
InvalidMemoryAccess == "InvalidMemoryAccess"
InvalidRegisterAccess == "InvalidRegisterAccess"
UnknownOpcode == "UnknownOpcode"

ErrorCode == {None, StackOverflow, StackUnderflow, InvalidMemoryAccess,
              InvalidRegisterAccess, UnknownOpcode}

----------------------------------------------------------------------------
(* Fixed-width integers.                                                   *)

Byte == 0..255
U8(n) == n % 256
U16(n) == n % 65536

RECURSIVE Pow2(_)
Pow2(n) == IF n = 0 THEN 1 ELSE 2 * Pow2(n - 1)

(* Bit k (0 = least significant) of n.                                     *)
Bit(n, k) == (n \div Pow2(k)) % 2

(* The bitwise operators & | ^ on two bytes.                               *)
BitAnd(a, b) ==
    LET s[k \in 0..8] ==
            IF k = 8 THEN 0
            ELSE (IF Bit(a, k) = 1 /\ Bit(b, k) = 1 THEN Pow2(k) ELSE 0) + s[k + 1]
    IN s[0]

BitOr(a, b) ==
    LET s[k \in 0..8] ==
            IF k = 8 THEN 0
            ELSE (IF Bit(a, k) = 1 \/ Bit(b, k) = 1 THEN Pow2(k) ELSE 0) + s[k + 1]
    IN s[0]

BitXor(a, b) ==
    LET s[k \in 0..8] ==
            IF k = 8 THEN 0
            ELSE (IF Bit(a, k) # Bit(b, k) THEN Pow2(k) ELSE 0) + s[k + 1]
    IN s[0]

----------------------------------------------------------------------------
(* Arrays of bytes held by their nonzero cells.                            *)

CellAt(arr, i) == IF i \in DOMAIN arr THEN arr[i] ELSE 0

WriteCell(arr, i, v) ==
    IF v = 0
    THEN [j \in (DOMAIN arr) \ {i} |-> arr[j]]
    ELSE [j \in (DOMAIN arr) \cup {i} |-> IF j = i THEN v ELSE arr[j]]

EmptyCells == [j \in {} |-> 0]

(* The machine as one record: the private data members of class Chip8,     *)
(* chip8.h lines 70-85.                                                    *)
Machine ==
    [memory_ |-> memory_, registers_ |-> registers_, stack_ |-> stack_,
     frameBuffer_ |-> frameBuffer_, keyboard_ |-> keyboard_,
     indexRegister_ |-> indexRegister_, stackPointer_ |-> stackPointer_,
     delayTimer_ |-> delayTimer_, soundTimer_ |-> soundTimer_,
     programCounter_ |-> programCounter_, opcode_ |-> opcode_,
     drawFlag_ |-> drawFlag_, lastError_ |-> lastError_]

MemAt(c, a) == CellAt(c.memory_, a)
PixelAt(c, i) == CellAt(c.frameBuffer_, i)

----------------------------------------------------------------------------
(* Utility methods, chip8.cpp lines 739-752.                               *)

setError(c, error) == [c EXCEPT !.lastError_ = error]
clearError(c) == [c EXCEPT !.lastError_ = None]
isValidMemoryAddress(address) == address < MEMORY_SIZE
isValidRegisterIndex(index) == index < REGISTER_COUNT

----------------------------------------------------------------------------
(* Decode fields of the fetched instruction word.                          *)

OpX(c) == (c.opcode_ \div 256) % 16    \* (opcode_ & 0x0F00) >> 8
OpY(c) == (c.opcode_ \div 16) % 16     \* (opcode_ & 0x00F0) >> 4
OpN(c) == c.opcode_ % 16               \* opcode_ & 0x000F
OpNN(c) == c.opcode_ % 256             \* opcode_ & 0x00FF
OpNNN(c) == c.opcode_ % 4096           \* opcode_ & 0x0FFF
OpFamily(c) == c.opcode_ \div 4096     \* (opcode_ & 0xF000) >> 12

AdvancePC(c, n) == [c EXCEPT !.programCounter_ = U16(c.programCounter_ + n)]

----------------------------------------------------------------------------
(* Opcode handlers, chip8.cpp lines 306-736.  Each maps the machine at     *)
(* entry to the machine at return.                                         *)

(* ReturnFromSubroutine resuming at the call itself, not after it.         *)
ReturnFromSubroutine_NoAdvance(c) ==
    IF c.stackPointer_ = 0
    THEN setError(c, StackUnderflow)
    ELSE LET sp == c.stackPointer_ - 1
         IN  [c EXCEPT !.stackPointer_ = sp,
                       !.programCounter_ = c.stack_[sp]]

(* case 0x000E of handleOpcode0xxx, lines 314-322.                         *)
(* ReturnFromSubroutine moving past a return that finds the stack empty.    *)
ReturnFromSubroutine_SkipOnUnderflow(c) ==
    IF c.stackPointer_ = 0
    THEN AdvancePC(setError(c, StackUnderflow), 2)
    ELSE LET sp == c.stackPointer_ - 1
         IN  [c EXCEPT !.stackPointer_ = sp,
                       !.programCounter_ = U16(c.stack_[sp] + 2)]

ReturnFromSubroutine(c) ==
    IF c.stackPointer_ = 0
    THEN setError(c, StackUnderflow)
    ELSE LET sp == c.stackPointer_ - 1
         IN  [c EXCEPT !.stackPointer_ = sp,
                       !.programCounter_ = U16(c.stack_[sp] + 2)]

handleOpcode0xxx(c) ==
    CASE OpN(c) = 0 ->
            AdvancePC([c EXCEPT !.frameBuffer_ = EmptyCells, !.drawFlag_ = TRUE], 2)
      [] OpN(c) = 14 -> ReturnFromSubroutine(c)
      [] OTHER -> setError(c, UnknownOpcode)

(* handleOpcode1xxx advancing past the jump target.                         *)
handleOpcode1xxx_JumpAndAdvance(c) ==
    LET address == OpNNN(c)
    IN  AdvancePC([c EXCEPT !.programCounter_ = address], 2)

handleOpcode1xxx(c) ==
    LET address == OpNNN(c)
    IN  IF ~isValidMemoryAddress(address)
        THEN setError(c, InvalidMemoryAccess)
        ELSE [c EXCEPT !.programCounter_ = address]

(* handleOpcode2xxx staying on the call when the stack is full.            *)
handleOpcode2xxx_StallOnOverflow(c) ==
    IF c.stackPointer_ >= STACK_SIZE
    THEN setError(c, StackOverflow)
    ELSE LET address == OpNNN(c)
         IN  IF ~isValidMemoryAddress(address)
             THEN AdvancePC(setError(c, InvalidMemoryAccess), 2)
             ELSE [c EXCEPT !.stack_[c.stackPointer_] = c.programCounter_,
                            !.stackPointer_ = c.stackPointer_ + 1,
                            !.programCounter_ = address]

(* handleOpcode2xxx keeping every return address in slot 0.                 *)
handleOpcode2xxx_PushAtBottom(c) ==
    IF c.stackPointer_ >= STACK_SIZE
    THEN AdvancePC(setError(c, StackOverflow), 2)
    ELSE LET address == OpNNN(c)
         IN  IF ~isValidMemoryAddress(address)
             THEN AdvancePC(setError(c, InvalidMemoryAccess), 2)
             ELSE [c EXCEPT !.stack_[0] = c.programCounter_,
                            !.stackPointer_ = c.stackPointer_ + 1,
                            !.programCounter_ = address]

handleOpcode2xxx(c) ==
    IF c.stackPointer_ >= STACK_SIZE
    THEN AdvancePC(setError(c, StackOverflow), 2)
    ELSE LET address == OpNNN(c)
         IN  IF ~isValidMemoryAddress(address)
             THEN AdvancePC(setError(c, InvalidMemoryAccess), 2)
             ELSE [c EXCEPT !.stack_[c.stackPointer_] = c.programCounter_,
                            !.stackPointer_ = c.stackPointer_ + 1,
                            !.programCounter_ = address]

handleOpcode3xxx(c) ==
    LET x == OpX(c)
        nn == OpNN(c)
    IN  IF ~isValidRegisterIndex(x)
        THEN setError(c, InvalidRegisterAccess)
        ELSE IF c.registers_[x] = nn THEN AdvancePC(c, 4) ELSE AdvancePC(c, 2)

(* handleOpcode4xxx skipping when VX equals NN.                             *)
handleOpcode4xxx_SkipOnEqual(c) ==
    LET x == OpX(c)
        nn == OpNN(c)
    IN  IF ~isValidRegisterIndex(x)
        THEN setError(c, InvalidRegisterAccess)
        ELSE IF c.registers_[x] = nn THEN AdvancePC(c, 4) ELSE AdvancePC(c, 2)

handleOpcode4xxx(c) ==
    LET x == OpX(c)
        nn == OpNN(c)
    IN  IF ~isValidRegisterIndex(x)
        THEN setError(c, InvalidRegisterAccess)
        ELSE IF c.registers_[x] # nn THEN AdvancePC(c, 4) ELSE AdvancePC(c, 2)

handleOpcode5xxx(c) ==
    LET x == OpX(c)
        y == OpY(c)
    IN  IF ~isValidRegisterIndex(x) \/ ~isValidRegisterIndex(y)
        THEN setError(c, InvalidRegisterAccess)
        ELSE IF c.registers_[x] = c.registers_[y]
             THEN AdvancePC(c, 4)
             ELSE AdvancePC(c, 2)

handleOpcode6xxx(c) ==
    LET x == OpX(c)
        nn == OpNN(c)
    IN  IF ~isValidRegisterIndex(x)
        THEN setError(c, InvalidRegisterAccess)
        ELSE AdvancePC([c EXCEPT !.registers_[x] = nn], 2)

(* handleOpcode7xxx reporting the carry in register 0xF.                    *)
handleOpcode7xxx_SetCarry(c) ==
    LET x == OpX(c)
        nn == OpNN(c)
        f == [c.registers_ EXCEPT ![15] = IF c.registers_[x] + nn > 255 THEN 1 ELSE 0]
    IN  IF ~isValidRegisterIndex(x)
        THEN setError(c, InvalidRegisterAccess)
        ELSE AdvancePC([c EXCEPT !.registers_ = [f EXCEPT ![x] = U8(f[x] + nn)]], 2)

handleOpcode7xxx(c) ==
    LET x == OpX(c)
        nn == OpNN(c)
    IN  IF ~isValidRegisterIndex(x)
        THEN setError(c, InvalidRegisterAccess)
        ELSE AdvancePC([c EXCEPT !.registers_[x] = U8(c.registers_[x] + nn)], 2)

(* The flag-producing cases write registers_[0xF] first and registers_[x]  *)
(* second, the second statement reading the registers the first one left.  *)
(* AddWithCarry flagging a sum of exactly 255 as a carry.                  *)
AddWithCarry_CarryAt255(r, x, y) ==
    LET f == [r EXCEPT ![15] = IF r[y] >= 255 - r[x] THEN 1 ELSE 0]
    IN  [f EXCEPT ![x] = U8(f[x] + f[y])]

(* case 0x0004 of handleOpcode8xxx, lines 468-475: registers_[0xF] is      *)
(* written first, then registers_[x] += registers_[y] reads the registers  *)
(* as that write left them.                                                *)
AddWithCarry(r, x, y) ==
    LET f == [r EXCEPT ![15] = IF r[y] > 255 - r[x] THEN 1 ELSE 0]
    IN  [f EXCEPT ![x] = U8(f[x] + f[y])]

(* SubtractWithBorrow setting the flag only when VX is strictly greater.    *)
SubtractWithBorrow_StrictFlag(r, x, y) ==
    LET f == [r EXCEPT ![15] = IF r[x] > r[y] THEN 1 ELSE 0]
    IN  [f EXCEPT ![x] = U8(f[x] - f[y])]

(* case 0x0005 of handleOpcode8xxx, lines 477-484.                          *)
SubtractWithBorrow(r, x, y) ==
    LET f == [r EXCEPT ![15] = IF r[x] >= r[y] THEN 1 ELSE 0]
    IN  [f EXCEPT ![x] = U8(f[x] - f[y])]

(* ShiftRight taking its operand from register Y.                           *)
ShiftRight_FromY(r, x, y) ==
    LET f == [r EXCEPT ![15] = r[y] % 2]
    IN  [f EXCEPT ![x] = f[y] \div 2]

(* case 0x0006 of handleOpcode8xxx, lines 486-489: y is decoded by the      *)
(* handler and not read by the case.                                        *)
ShiftRight(r, x, y) ==
    LET f == [r EXCEPT ![15] = r[x] % 2]
    IN  [f EXCEPT ![x] = f[x] \div 2]

(* case 0x0007 of handleOpcode8xxx, lines 491-498.                          *)
ReverseSubtract(r, x, y) ==
    LET f == [r EXCEPT ![15] = IF r[y] >= r[x] THEN 1 ELSE 0]
    IN  [f EXCEPT ![x] = U8(f[y] - f[x])]

(* case 0x000E of handleOpcode8xxx, lines 500-503: y is decoded by the      *)
(* handler and not read by the case.                                        *)
ShiftLeft(r, x, y) ==
    LET f == [r EXCEPT ![15] = r[x] \div 128]
    IN  [f EXCEPT ![x] = U8(f[x] * 2)]

handleOpcode8xxx(c) ==
    LET x == OpX(c)
        y == OpY(c)
        r == c.registers_
    IN  IF ~isValidRegisterIndex(x) \/ ~isValidRegisterIndex(y)
        THEN setError(c, InvalidRegisterAccess)
        ELSE
        CASE OpN(c) = 0 -> AdvancePC([c EXCEPT !.registers_[x] = r[y]], 2)
          [] OpN(c) = 1 -> AdvancePC([c EXCEPT !.registers_[x] = BitOr(r[x], r[y])], 2)
          [] OpN(c) = 2 -> AdvancePC([c EXCEPT !.registers_[x] = BitAnd(r[x], r[y])], 2)
          [] OpN(c) = 3 -> AdvancePC([c EXCEPT !.registers_[x] = BitXor(r[x], r[y])], 2)
          [] OpN(c) = 4 -> AdvancePC([c EXCEPT !.registers_ = AddWithCarry(r, x, y)], 2)
          [] OpN(c) = 5 -> AdvancePC([c EXCEPT !.registers_ = SubtractWithBorrow(r, x, y)], 2)
          [] OpN(c) = 6 -> AdvancePC([c EXCEPT !.registers_ = ShiftRight(r, x, y)], 2)
          [] OpN(c) = 7 -> AdvancePC([c EXCEPT !.registers_ = ReverseSubtract(r, x, y)], 2)
          [] OpN(c) = 14 -> AdvancePC([c EXCEPT !.registers_ = ShiftLeft(r, x, y)], 2)
          [] OTHER -> setError(c, UnknownOpcode)

handleOpcode9xxx(c) ==
    LET x == OpX(c)
        y == OpY(c)
    IN  IF ~isValidRegisterIndex(x) \/ ~isValidRegisterIndex(y)
        THEN setError(c, InvalidRegisterAccess)
        ELSE IF c.registers_[x] # c.registers_[y]
             THEN AdvancePC(c, 4)
             ELSE AdvancePC(c, 2)

handleOpcodeAxxx(c) ==
    LET address == OpNNN(c)
    IN  IF ~isValidMemoryAddress(address)
        THEN setError(c, InvalidMemoryAccess)
        ELSE AdvancePC([c EXCEPT !.indexRegister_ = address], 2)

(* handleOpcodeBxxx jumping before it checks the address.                  *)
handleOpcodeBxxx_JumpThenCheck(c) ==
    LET address == U16(c.registers_[0] + OpNNN(c))
        jumped == [c EXCEPT !.programCounter_ = address]
    IN  IF ~isValidMemoryAddress(address)
        THEN setError(jumped, InvalidMemoryAccess)
        ELSE jumped

handleOpcodeBxxx(c) ==
    LET address == U16(c.registers_[0] + OpNNN(c))
    IN  IF ~isValidMemoryAddress(address)
        THEN setError(c, InvalidMemoryAccess)
        ELSE [c EXCEPT !.programCounter_ = address]

(* randomNumber is the byte Random::get<std::uint8_t>(0, 255) returns.     *)
handleOpcodeCxxx(c, randomNumber) ==
    LET x == OpX(c)
        nn == OpNN(c)
    IN  IF ~isValidRegisterIndex(x)
        THEN setError(c, InvalidRegisterAccess)
        ELSE AdvancePC([c EXCEPT !.registers_[x] = BitAnd(randomNumber, nn)], 2)

(* DrawCols lighting the pixels of the sprite where the code toggles them. *)
RECURSIVE DrawCols_Light(_, _, _, _, _, _)
DrawCols_Light(c, spriteRow, xPos, yPos, row, col) ==
    IF col >= 8 THEN c
    ELSE IF Bit(spriteRow, 7 - col) # 0
    THEN LET pixelX == (xPos + col) % DISPLAY_WIDTH
             pixelY == (yPos + row) % DISPLAY_HEIGHT
             pixelIndex == pixelY * DISPLAY_WIDTH + pixelX
             c1 == IF PixelAt(c, pixelIndex) = 1
                   THEN [c EXCEPT !.registers_[15] = 1]
                   ELSE c
             c2 == [c1 EXCEPT !.frameBuffer_ =
                        WriteCell(c1.frameBuffer_, pixelIndex,
                                  BitOr(PixelAt(c1, pixelIndex), 1))]
         IN  DrawCols_Light(c2, spriteRow, xPos, yPos, row, col + 1)
    ELSE DrawCols_Light(c, spriteRow, xPos, yPos, row, col + 1)

(* The column loop of handleOpcodeDxxx, chip8.cpp lines 597-608.           *)
RECURSIVE DrawCols(_, _, _, _, _, _)
DrawCols(c, spriteRow, xPos, yPos, row, col) ==
    IF col >= 8 THEN c
    ELSE IF Bit(spriteRow, 7 - col) # 0       \* spriteRow & (0x80 >> col)
    THEN LET pixelX == (xPos + col) % DISPLAY_WIDTH
             pixelY == (yPos + row) % DISPLAY_HEIGHT
             pixelIndex == pixelY * DISPLAY_WIDTH + pixelX
             c1 == IF PixelAt(c, pixelIndex) = 1
                   THEN [c EXCEPT !.registers_[15] = 1]
                   ELSE c
             c2 == [c1 EXCEPT !.frameBuffer_ =
                        WriteCell(c1.frameBuffer_, pixelIndex,
                                  BitXor(PixelAt(c1, pixelIndex), 1))]
         IN  DrawCols(c2, spriteRow, xPos, yPos, row, col + 1)
    ELSE DrawCols(c, spriteRow, xPos, yPos, row, col + 1)

(* The row loop of handleOpcodeDxxx and what follows it, chip8.cpp lines   *)
(* 589-612.                                                                *)
RECURSIVE DrawRows(_, _, _, _, _)
DrawRows(c, height, xPos, yPos, row) ==
    IF row >= height
    THEN AdvancePC([c EXCEPT !.drawFlag_ = TRUE], 2)
    ELSE IF c.indexRegister_ + row >= MEMORY_SIZE
    THEN setError(c, InvalidMemoryAccess)
    ELSE DrawRows(DrawCols(c, MemAt(c, c.indexRegister_ + row), xPos, yPos, row, 0),
                  height, xPos, yPos, row + 1)

(* handleOpcodeDxxx not clearing the collision flag before it draws.       *)
handleOpcodeDxxx_KeepFlag(c) ==
    LET x == OpX(c)
        y == OpY(c)
        height == OpN(c)
    IN  IF ~isValidRegisterIndex(x) \/ ~isValidRegisterIndex(y)
        THEN setError(c, InvalidRegisterAccess)
        ELSE LET xPos == c.registers_[x]
                 yPos == c.registers_[y]
             IN  DrawRows(c, height, xPos, yPos, 0)

handleOpcodeDxxx(c) ==
    LET x == OpX(c)
        y == OpY(c)
        height == OpN(c)
    IN  IF ~isValidRegisterIndex(x) \/ ~isValidRegisterIndex(y)
        THEN setError(c, InvalidRegisterAccess)
        ELSE LET xPos == c.registers_[x]
                 yPos == c.registers_[y]
             IN  DrawRows([c EXCEPT !.registers_[15] = 0], height, xPos, yPos, 0)

(* handleOpcodeExxx refusing a key number above 15.                         *)
handleOpcodeExxx_RefuseBadKey(c) ==
    LET x == OpX(c)
        vx == c.registers_[x]
    IN  IF ~isValidRegisterIndex(x)
        THEN setError(c, InvalidRegisterAccess)
        ELSE IF vx >= KEYBOARD_SIZE
        THEN setError(c, InvalidRegisterAccess)
        ELSE
        CASE OpN(c) = 14 ->
                IF c.keyboard_[vx] # 0 THEN AdvancePC(c, 4) ELSE AdvancePC(c, 2)
          [] OpN(c) = 1 ->
                IF c.keyboard_[vx] = 0 THEN AdvancePC(c, 4) ELSE AdvancePC(c, 2)
          [] OTHER -> setError(c, UnknownOpcode)

handleOpcodeExxx(c) ==
    LET x == OpX(c)
        vx == c.registers_[x]
    IN  IF ~isValidRegisterIndex(x)
        THEN setError(c, InvalidRegisterAccess)
        ELSE
        CASE OpN(c) = 14 ->
                IF vx < KEYBOARD_SIZE /\ c.keyboard_[vx] # 0
                THEN AdvancePC(c, 4)
                ELSE AdvancePC(c, 2)
          [] OpN(c) = 1 ->
                IF vx >= KEYBOARD_SIZE \/ c.keyboard_[vx] = 0
                THEN AdvancePC(c, 4)
                ELSE AdvancePC(c, 2)
          [] OTHER -> setError(c, UnknownOpcode)

(* The keys the FX0A loop finds pressed, chip8.cpp lines 661-667.          *)
PressedKeys(c) == {i \in 0..(KEYBOARD_SIZE - 1) : c.keyboard_[i] # 0}

LowestOf(S) == CHOOSE i \in S : \A j \in S : i <= j

(* StoreRegisters stopping one register short of X.                        *)
RECURSIVE StoreRegisters_StopBeforeX(_, _, _)
StoreRegisters_StopBeforeX(c, x, i) ==
    IF i >= x THEN c
    ELSE StoreRegisters_StopBeforeX(
             [c EXCEPT !.memory_ =
                  WriteCell(c.memory_, c.indexRegister_ + i, c.registers_[i])],
             x, i + 1)

(* The copy loops of FX55 and FX65, chip8.cpp lines 712-714 and 723-725.   *)
RECURSIVE StoreRegisters(_, _, _)
StoreRegisters(c, x, i) ==
    IF i > x THEN c
    ELSE StoreRegisters(
             [c EXCEPT !.memory_ =
                  WriteCell(c.memory_, c.indexRegister_ + i, c.registers_[i])],
             x, i + 1)

RECURSIVE LoadRegisters(_, _, _)
LoadRegisters(c, x, i) ==
    IF i > x THEN c
    ELSE LoadRegisters(
             [c EXCEPT !.registers_[i] = MemAt(c, c.indexRegister_ + i)],
             x, i + 1)

(* WaitForKey moving on although no key is down.                           *)
WaitForKey_NoWait(c) ==
    IF PressedKeys(c) = {}
    THEN AdvancePC(c, 2)
    ELSE AdvancePC([c EXCEPT !.registers_[OpX(c)] = LowestOf(PressedKeys(c))], 2)

(* case 0x000A of handleOpcodeFxxx and the increment that follows the     *)
(* switch, lines 659-672 and 735.                                          *)
WaitForKey(c) ==
    IF PressedKeys(c) = {}
    THEN c
    ELSE AdvancePC([c EXCEPT !.registers_[OpX(c)] = LowestOf(PressedKeys(c))], 2)

(* SpriteLocation taking 16 for a digit.                                   *)
SpriteLocation_AcceptSixteen(c) ==
    LET vx == c.registers_[OpX(c)]
    IN  IF vx > 16
        THEN setError(c, InvalidMemoryAccess)
        ELSE AdvancePC([c EXCEPT !.indexRegister_ = vx * 5], 2)

(* case 0x0029 of handleOpcodeFxxx and the increment that follows the      *)
(* switch, lines 686-693 and 735.                                          *)
SpriteLocation(c) ==
    LET vx == c.registers_[OpX(c)]
    IN  IF vx > 15
        THEN setError(c, InvalidMemoryAccess)
        ELSE AdvancePC([c EXCEPT !.indexRegister_ = vx * 5], 2)

(* StoreBcd checking only the first of the three addresses it writes.      *)
StoreBcd_CheckFirstAddress(c) ==
    LET vx == c.registers_[OpX(c)]
        I == c.indexRegister_
    IN  IF I >= MEMORY_SIZE
        THEN setError(c, InvalidMemoryAccess)
        ELSE LET m1 == WriteCell(c.memory_, I, vx \div 100)
                 m2 == WriteCell(m1, I + 1, (vx \div 10) % 10)
                 m3 == WriteCell(m2, I + 2, vx % 10)
             IN  AdvancePC([c EXCEPT !.memory_ = m3], 2)

(* StoreBcd writing the tens without taking them modulo 10.                 *)
StoreBcd_TensNotReduced(c) ==
    LET vx == c.registers_[OpX(c)]
        I == c.indexRegister_
    IN  IF I + 2 >= MEMORY_SIZE
        THEN setError(c, InvalidMemoryAccess)
        ELSE LET m1 == WriteCell(c.memory_, I, vx \div 100)
                 m2 == WriteCell(m1, I + 1, vx \div 10)
                 m3 == WriteCell(m2, I + 2, vx % 10)
             IN  AdvancePC([c EXCEPT !.memory_ = m3], 2)

(* case 0x0033 of handleOpcodeFxxx and the increment that follows the      *)
(* switch, lines 695-705 and 735.                                          *)
StoreBcd(c) ==
    LET vx == c.registers_[OpX(c)]
        I == c.indexRegister_
    IN  IF I + 2 >= MEMORY_SIZE
        THEN setError(c, InvalidMemoryAccess)
        ELSE LET m1 == WriteCell(c.memory_, I, vx \div 100)
                 m2 == WriteCell(m1, I + 1, (vx \div 10) % 10)
                 m3 == WriteCell(m2, I + 2, vx % 10)
             IN  AdvancePC([c EXCEPT !.memory_ = m3], 2)

handleOpcodeFxxx(c) ==
    LET x == OpX(c)
        vx == c.registers_[x]
        I == c.indexRegister_
    IN  IF ~isValidRegisterIndex(x)
        THEN setError(c, InvalidRegisterAccess)
        ELSE
        CASE OpNN(c) = 7 ->                                             \* FX07
                AdvancePC([c EXCEPT !.registers_[x] = c.delayTimer_], 2)
          [] OpNN(c) = 10 -> WaitForKey(c)                              \* FX0A
          [] OpNN(c) = 21 ->                                            \* FX15
                AdvancePC([c EXCEPT !.delayTimer_ = vx], 2)
          [] OpNN(c) = 24 ->                                            \* FX18
                AdvancePC([c EXCEPT !.soundTimer_ = vx], 2)
          [] OpNN(c) = 30 ->                                            \* FX1E
                AdvancePC([c EXCEPT !.indexRegister_ = U16(I + vx)], 2)
          [] OpNN(c) = 41 ->                                            \* FX29
                SpriteLocation(c)
          [] OpNN(c) = 51 ->                                            \* FX33
                StoreBcd(c)
          [] OpNN(c) = 85 ->                                            \* FX55
                IF I + x >= MEMORY_SIZE
                THEN setError(c, InvalidMemoryAccess)
                ELSE AdvancePC(StoreRegisters(c, x, 0), 2)
          [] OpNN(c) = 101 ->                                           \* FX65
                IF I + x >= MEMORY_SIZE
                THEN setError(c, InvalidMemoryAccess)
                ELSE AdvancePC(LoadRegisters(c, x, 0), 2)
          [] OTHER -> setError(c, UnknownOpcode)

----------------------------------------------------------------------------
(* emulateCycle, chip8.cpp lines 95-172.                                   *)

(* The fetch, line 106: (memory_[pc] << 8) | memory_[pc + 1].              *)
Fetch(c) ==
    [c EXCEPT !.opcode_ = MemAt(c, c.programCounter_) * 256
                          + MemAt(c, c.programCounter_ + 1)]

(* The switch on opcode_ & 0xF000, lines 108-160.  Its default branch is   *)
(* never taken: the sixteen cases cover every value of the top nibble.     *)
Dispatch(c, randomNumber) ==
    CASE OpFamily(c) = 0 -> handleOpcode0xxx(c)
      [] OpFamily(c) = 1 -> handleOpcode1xxx(c)
      [] OpFamily(c) = 2 -> handleOpcode2xxx(c)
      [] OpFamily(c) = 3 -> handleOpcode3xxx(c)
      [] OpFamily(c) = 4 -> handleOpcode4xxx(c)
      [] OpFamily(c) = 5 -> handleOpcode5xxx(c)
      [] OpFamily(c) = 6 -> handleOpcode6xxx(c)
      [] OpFamily(c) = 7 -> handleOpcode7xxx(c)
      [] OpFamily(c) = 8 -> handleOpcode8xxx(c)
      [] OpFamily(c) = 9 -> handleOpcode9xxx(c)
      [] OpFamily(c) = 10 -> handleOpcodeAxxx(c)
      [] OpFamily(c) = 11 -> handleOpcodeBxxx(c)
      [] OpFamily(c) = 12 -> handleOpcodeCxxx(c, randomNumber)
      [] OpFamily(c) = 13 -> handleOpcodeDxxx(c)
      [] OpFamily(c) = 14 -> handleOpcodeExxx(c)
      [] OpFamily(c) = 15 -> handleOpcodeFxxx(c)

(* UpdateTimers not ticking after an instruction that failed.              *)
UpdateTimers_SkipOnError(c) ==
    IF c.lastError_ # None
    THEN c
    ELSE [c EXCEPT !.delayTimer_ = IF @ > 0 THEN @ - 1 ELSE @,
                   !.soundTimer_ = IF @ > 0 THEN @ - 1 ELSE @]

(* The timer update, lines 162-171.                                        *)
UpdateTimers(c) ==
    [c EXCEPT !.delayTimer_ = IF @ > 0 THEN @ - 1 ELSE @,
              !.soundTimer_ = IF @ > 0 THEN @ - 1 ELSE @]

(* emulateCycle with the bounds check one address late.                    *)
emulateCycle_LateGuard(c, randomNumber) ==
    LET c0 == clearError(c)
    IN  IF c0.programCounter_ >= MEMORY_SIZE
        THEN setError(c0, InvalidMemoryAccess)
        ELSE UpdateTimers(Dispatch(Fetch(c0), randomNumber))

(* emulateCycle without the clearError() it starts with.                   *)
emulateCycle_KeepError(c, randomNumber) ==
    IF c.programCounter_ >= MEMORY_SIZE - 1
    THEN setError(c, InvalidMemoryAccess)
    ELSE UpdateTimers(Dispatch(Fetch(c), randomNumber))

(* emulateCycle lowering the redraw flag when it starts.                    *)
emulateCycle_ConsumesFrame(c, randomNumber) ==
    LET c0 == [clearError(c) EXCEPT !.drawFlag_ = FALSE]
    IN  IF c0.programCounter_ >= MEMORY_SIZE - 1
        THEN setError(c0, InvalidMemoryAccess)
        ELSE UpdateTimers(Dispatch(Fetch(c0), randomNumber))

(* emulateCycle ticking the timers before it runs the instruction.          *)
emulateCycle_TickFirst(c, randomNumber) ==
    LET c0 == clearError(c)
    IN  IF c0.programCounter_ >= MEMORY_SIZE - 1
        THEN setError(c0, InvalidMemoryAccess)
        ELSE Dispatch(UpdateTimers(Fetch(c0)), randomNumber)

emulateCycle(c, randomNumber) ==
    LET c0 == clearError(c)
    IN  IF c0.programCounter_ >= MEMORY_SIZE - 1
        THEN setError(c0, InvalidMemoryAccess)
        ELSE UpdateTimers(Dispatch(Fetch(c0), randomNumber))

----------------------------------------------------------------------------
(* init, chip8.cpp lines 72-93.                                            *)

(* memory_ after fill(0) and the copy of FONT_SET to its start.            *)
FontMemory == [a \in 0..(FONT_SET_SIZE - 1) |-> FONT_SET[a + 1]]

(* init leaving the two timers as they are.                                *)
init_KeepTimers(c) ==
    clearError(
        [c EXCEPT !.programCounter_ = ROM_START_ADDRESS,
                  !.opcode_ = 0,
                  !.indexRegister_ = 0,
                  !.stackPointer_ = 0,
                  !.drawFlag_ = FALSE,
                  !.frameBuffer_ = EmptyCells,
                  !.stack_ = [i \in 0..(STACK_SIZE - 1) |-> 0],
                  !.keyboard_ = [i \in 0..(KEYBOARD_SIZE - 1) |-> 0],
                  !.registers_ = [i \in 0..(REGISTER_COUNT - 1) |-> 0],
                  !.memory_ = FontMemory])

init(c) ==
    clearError(
        [c EXCEPT !.programCounter_ = ROM_START_ADDRESS,
                  !.opcode_ = 0,
                  !.indexRegister_ = 0,
                  !.stackPointer_ = 0,
                  !.drawFlag_ = FALSE,
                  !.delayTimer_ = 0,
                  !.soundTimer_ = 0,
                  !.frameBuffer_ = EmptyCells,
                  !.stack_ = [i \in 0..(STACK_SIZE - 1) |-> 0],
                  !.keyboard_ = [i \in 0..(KEYBOARD_SIZE - 1) |-> 0],
                  !.registers_ = [i \in 0..(REGISTER_COUNT - 1) |-> 0],
                  !.memory_ = FontMemory])

(* The constructor, chip8.cpp line 40: lastError_(None), then init().  The *)
(* record init is applied to stands for the uninitialised object; init     *)
(* assigns every member.                                                   *)
Chip8 ==
    init([memory_ |-> EmptyCells, registers_ |-> <<>>, stack_ |-> <<>>,
          frameBuffer_ |-> EmptyCells, keyboard_ |-> <<>>, indexRegister_ |-> 0,
          stackPointer_ |-> 0, delayTimer_ |-> 0, soundTimer_ |-> 0,
          programCounter_ |-> 0, opcode_ |-> 0, drawFlag_ |-> FALSE,
          lastError_ |-> None])

----------------------------------------------------------------------------
(* loadRom, chip8.cpp lines 42-71.  A file is [open, readOk, bytes]: open  *)
(* is whether the ifstream opens, bytes is the file's content (tellg at    *)
(* the end gives its length), readOk is whether file.read delivers it.     *)

(* std::copy(buffer.begin(), buffer.end(), memory_.begin() + start).       *)
CopyBytes(arr, bytes, start) ==
    LET written == start..(start + Len(bytes) - 1)
        ByteOf(a) == bytes[a - start + 1]
        keep == {a \in (DOMAIN arr) \cup written :
                     IF a \in written THEN ByteOf(a) # 0 ELSE TRUE}
    IN  [a \in keep |-> IF a \in written THEN ByteOf(a) ELSE arr[a]]

(* loadRom turning away a file that fills memory to its last cell.        *)
loadRom_RejectExactFit(c, file) ==
    LET c0 == clearError(c)
        size == Len(file.bytes)
        maxRomSize == MEMORY_SIZE - ROM_START_ADDRESS
    IN  IF ~file.open
        THEN [c |-> setError(c0, InvalidMemoryAccess), ret |-> FALSE]
        ELSE IF size <= 0 \/ size >= maxRomSize
        THEN [c |-> setError(c0, InvalidMemoryAccess), ret |-> FALSE]
        ELSE IF ~file.readOk
        THEN [c |-> setError(c0, InvalidMemoryAccess), ret |-> FALSE]
        ELSE [c |-> [c0 EXCEPT !.memory_ =
                         CopyBytes(c0.memory_, file.bytes, ROM_START_ADDRESS)],
              ret |-> TRUE]

(* loadRom resetting the machine before it copies the file.                *)
loadRom_ImplicitReset(c, file) ==
    LET c0 == clearError(c)
        size == Len(file.bytes)
        maxRomSize == MEMORY_SIZE - ROM_START_ADDRESS
    IN  IF ~file.open
        THEN [c |-> setError(c0, InvalidMemoryAccess), ret |-> FALSE]
        ELSE IF size <= 0 \/ size > maxRomSize
        THEN [c |-> setError(c0, InvalidMemoryAccess), ret |-> FALSE]
        ELSE IF ~file.readOk
        THEN [c |-> setError(c0, InvalidMemoryAccess), ret |-> FALSE]
        ELSE [c |-> [init(c0) EXCEPT !.memory_ =
                         CopyBytes(FontMemory, file.bytes, ROM_START_ADDRESS)],
              ret |-> TRUE]

loadRom(c, file) ==
    LET c0 == clearError(c)
        size == Len(file.bytes)
        maxRomSize == MEMORY_SIZE - ROM_START_ADDRESS
    IN  IF ~file.open
        THEN [c |-> setError(c0, InvalidMemoryAccess), ret |-> FALSE]
        ELSE IF size <= 0 \/ size > maxRomSize
        THEN [c |-> setError(c0, InvalidMemoryAccess), ret |-> FALSE]
        ELSE IF ~file.readOk
        THEN [c |-> setError(c0, InvalidMemoryAccess), ret |-> FALSE]
        ELSE [c |-> [c0 EXCEPT !.memory_ =
                         CopyBytes(c0.memory_, file.bytes, ROM_START_ADDRESS)],
              ret |-> TRUE]

----------------------------------------------------------------------------
(* Public accessors, chip8.cpp lines 175-298.  A setter maps the machine   *)
(* to the machine after the call; a getter is const and maps the machine   *)
(* to the value returned.  Arguments are values of the parameter's type.   *)

setPixel(c, x, y, value) ==
    IF x >= DISPLAY_WIDTH \/ y >= DISPLAY_HEIGHT
    THEN setError(c, InvalidMemoryAccess)
    ELSE [c EXCEPT !.frameBuffer_ = WriteCell(c.frameBuffer_, y * DISPLAY_WIDTH + x, value)]

getPixel(c, x, y) ==
    IF x >= DISPLAY_WIDTH \/ y >= DISPLAY_HEIGHT
    THEN 0
    ELSE PixelAt(c, y * DISPLAY_WIDTH + x)

setKeyState(c, key, pressed) ==
    IF key >= KEYBOARD_SIZE
    THEN setError(c, InvalidRegisterAccess)
    ELSE [c EXCEPT !.keyboard_[key] = IF pressed THEN 1 ELSE 0]

isKeyPressed(c, key) ==
    IF key >= KEYBOARD_SIZE THEN FALSE ELSE c.keyboard_[key] # 0

setMemory(c, address, value) ==
    IF ~isValidMemoryAddress(address)
    THEN setError(c, InvalidMemoryAccess)
    ELSE [clearError(c) EXCEPT !.memory_ = WriteCell(c.memory_, address, value)]

setProgramCounter(c, address) ==
    IF ~isValidMemoryAddress(address)
    THEN setError(c, InvalidMemoryAccess)
    ELSE [c EXCEPT !.programCounter_ = address]

setStack(c, subroutine, address) ==
    IF subroutine >= STACK_SIZE
    THEN setError(c, StackOverflow)
    ELSE [clearError(c) EXCEPT !.stack_[subroutine] = address]

(* setStackPointer taking 17 for a stack pointer.                           *)
setStackPointer_AcceptSeventeen(c, subroutine) ==
    IF subroutine > STACK_SIZE + 1
    THEN setError(c, StackOverflow)
    ELSE [clearError(c) EXCEPT !.stackPointer_ = subroutine]

setStackPointer(c, subroutine) ==
    IF subroutine > STACK_SIZE
    THEN setError(c, StackOverflow)
    ELSE [clearError(c) EXCEPT !.stackPointer_ = subroutine]

setRegisterAt(c, reg, value) ==
    IF ~isValidRegisterIndex(reg)
    THEN setError(c, InvalidRegisterAccess)
    ELSE [clearError(c) EXCEPT !.registers_[reg] = value]

setDelayTimer(c, value) == [c EXCEPT !.delayTimer_ = value]

setDrawFlag(c, condition) == [c EXCEPT !.drawFlag_ = condition]

setIndexRegister(c, value) == [c EXCEPT !.indexRegister_ = value]

(* getMemoryAt is declared getMemoryAt(std::uint8_t address) in chip8.h    *)
(* line 58 and defined with a std::uint16_t address in chip8.cpp line 267. *)
(* A caller compiles against the declaration, so the address it passes is  *)
(* converted to the width the build settles on: addressBits is 8 for the   *)
(* declaration's type and 16 for the definition's.                         *)
getMemoryAt(c, address, addressBits) ==
    LET converted == address % Pow2(addressBits)
    IN  IF ~isValidMemoryAddress(converted) THEN 0 ELSE MemAt(c, converted)

getStackAt(c, subroutine) ==
    IF subroutine >= STACK_SIZE THEN 0 ELSE c.stack_[subroutine]

getRegisterAt(c, reg) ==
    IF ~isValidRegisterIndex(reg) THEN 0 ELSE c.registers_[reg]

----------------------------------------------------------------------------
(* The state machine.  Every action is one call of a public operation; it  *)
(* records the call and the machine at entry.                              *)

(* A machine record with the call that produced it.                       *)
WithCall(m, cl) ==
    [memory_ |-> m.memory_, registers_ |-> m.registers_, stack_ |-> m.stack_,
     frameBuffer_ |-> m.frameBuffer_, keyboard_ |-> m.keyboard_,
     indexRegister_ |-> m.indexRegister_, stackPointer_ |-> m.stackPointer_,
     delayTimer_ |-> m.delayTimer_, soundTimer_ |-> m.soundTimer_,
     programCounter_ |-> m.programCounter_, opcode_ |-> m.opcode_,
     drawFlag_ |-> m.drawFlag_, lastError_ |-> m.lastError_, call |-> cl]

Apply(n, op, args, ret) ==
    /\ memory_' = n.memory_
    /\ registers_' = n.registers_
    /\ stack_' = n.stack_
    /\ frameBuffer_' = n.frameBuffer_
    /\ keyboard_' = n.keyboard_
    /\ indexRegister_' = n.indexRegister_
    /\ stackPointer_' = n.stackPointer_
    /\ delayTimer_' = n.delayTimer_
    /\ soundTimer_' = n.soundTimer_
    /\ programCounter_' = n.programCounter_
    /\ opcode_' = n.opcode_
    /\ drawFlag_' = n.drawFlag_
    /\ lastError_' = n.lastError_
    /\ call' = [op |-> op, args |-> args, ret |-> ret]
    /\ pre' = WithCall(Machine, call)
    /\ nops' = nops + 1
    /\ history' = IF history.on
                  THEN [history EXCEPT !.steps = Append(@, [at |-> Machine, op |-> op])]
                  ELSE history

(* The machine is in state n and no operation has been called on it yet;   *)
(* recorded says whether the run that follows is recorded in history.      *)
StartWith(n, recorded) ==
    /\ memory_ = n.memory_
    /\ registers_ = n.registers_
    /\ stack_ = n.stack_
    /\ frameBuffer_ = n.frameBuffer_
    /\ keyboard_ = n.keyboard_
    /\ indexRegister_ = n.indexRegister_
    /\ stackPointer_ = n.stackPointer_
    /\ delayTimer_ = n.delayTimer_
    /\ soundTimer_ = n.soundTimer_
    /\ programCounter_ = n.programCounter_
    /\ opcode_ = n.opcode_
    /\ drawFlag_ = n.drawFlag_
    /\ lastError_ = n.lastError_
    /\ call = [op |-> "Chip8", args |-> <<>>, ret |-> 0]
    /\ pre = WithCall(n, [op |-> "", args |-> <<>>, ret |-> 0])
    /\ nops = 0
    /\ history = [on |-> recorded, steps |-> <<>>]

StartIn(n) == StartWith(n, FALSE)

StartRecordedIn(n) == StartWith(n, TRUE)

(* Bounds of the model.                                                    *)
MaxOps == 3
MaxRomOps == 2
MaxUnitOps == 2
MaxDecodeCycles == 1
MaxAluCycles == 1
MaxDrawCycles == 2
MaxProgramCycles == 5
MaxCallCycles == 34
MaxStackOps == 5
MaxMainOps == 9

(* Inputs of the operations.                                               *)
MemoryWriteSamples ==
    {<<0, 0>>, <<512, 171>>, <<4095, 171>>, <<4096, 171>>, <<65535, 171>>}
AddressSamples == {0, 512, 4095, 4096}
AddressBits == {8, 16}
RandomSamples == {0, 165, 255}
ProgramCounterSamples == {514, 4095, 4096}
StackSamples == {<<0, 768>>, <<15, 65535>>, <<16, 512>>}
StackPointerSamples == {0, 1, 16, 17}
RegisterWriteSamples == {<<0, 66>>, <<15, 255>>, <<16, 66>>, <<255, 66>>}
RegisterIndexSamples == {0, 15, 16}
StackIndexSamples == {0, 15, 16}
TimerSamples == {0, 3}
IndexRegisterSamples == {768, 65535}
PixelSamples == {<<0, 0, 1>>, <<64, 0, 1>>, <<0, 32, 1>>, <<5, 5, 2>>}
PixelReadSamples == {<<0, 0>>, <<5, 5>>, <<64, 0>>}
KeyWriteSamples == {<<5, TRUE>>, <<5, FALSE>>, <<16, TRUE>>, <<255, TRUE>>}
KeySamples == {5, 16}

(* ROM files: missing, empty, one byte, a four-byte program, the largest   *)
(* that fits, one byte too large, and one whose read fails.                *)
RomIds == 1..7

(* A missing, an empty, a four-byte and a too large file.                  *)
SmallRomIds == {1, 2, 4, 6}

RomFile(f) ==
    CASE f = 1 -> [open |-> FALSE, readOk |-> FALSE, bytes |-> <<>>]
      [] f = 2 -> [open |-> TRUE, readOk |-> TRUE, bytes |-> <<>>]
      [] f = 3 -> [open |-> TRUE, readOk |-> TRUE, bytes |-> <<163>>]
      [] f = 4 -> [open |-> TRUE, readOk |-> TRUE, bytes |-> <<97, 5, 0, 238>>]
      [] f = 5 -> [open |-> TRUE, readOk |-> TRUE,
                   bytes |-> [i \in 1..(MEMORY_SIZE - ROM_START_ADDRESS) |->
                                  (7 * i) % 256]]
      [] f = 6 -> [open |-> TRUE, readOk |-> TRUE,
                   bytes |-> [i \in 1..(MEMORY_SIZE - ROM_START_ADDRESS + 1) |-> 170]]
      [] f = 7 -> [open |-> TRUE, readOk |-> FALSE, bytes |-> <<18, 0>>]

DoInit == Apply(init(Machine), "init", <<>>, 0)

DoLoadRom(ids) ==
    \E f \in ids :
        LET r == loadRom(Machine, RomFile(f))
        IN  Apply(r.c, "loadRom", <<f>>, r.ret)

DoEmulateCycle ==
    \E randomNumber \in RandomSamples :
        Apply(emulateCycle(Machine, randomNumber), "emulateCycle", <<>>, 0)

DoSetPixel ==
    \E p \in PixelSamples :
        Apply(setPixel(Machine, p[1], p[2], p[3]), "setPixel", p, 0)

DoGetPixel ==
    \E p \in PixelReadSamples :
        Apply(Machine, "getPixel", p, getPixel(Machine, p[1], p[2]))

DoSetKeyState ==
    \E k \in KeyWriteSamples :
        Apply(setKeyState(Machine, k[1], k[2]), "setKeyState", k, 0)

DoIsKeyPressed ==
    \E key \in KeySamples :
        Apply(Machine, "isKeyPressed", <<key>>, isKeyPressed(Machine, key))

DoSetMemory ==
    \E w \in MemoryWriteSamples :
        Apply(setMemory(Machine, w[1], w[2]), "setMemory", w, 0)

DoSetProgramCounter ==
    \E address \in ProgramCounterSamples :
        Apply(setProgramCounter(Machine, address), "setProgramCounter", <<address>>, 0)

DoSetStack ==
    \E p \in StackSamples :
        Apply(setStack(Machine, p[1], p[2]), "setStack", p, 0)

DoSetStackPointer ==
    \E subroutine \in StackPointerSamples :
        Apply(setStackPointer(Machine, subroutine), "setStackPointer", <<subroutine>>, 0)

DoSetRegisterAt ==
    \E w \in RegisterWriteSamples :
        Apply(setRegisterAt(Machine, w[1], w[2]), "setRegisterAt", w, 0)

DoSetDelayTimer ==
    \E value \in TimerSamples :
        Apply(setDelayTimer(Machine, value), "setDelayTimer", <<value>>, 0)

DoSetDrawFlag ==
    \E condition \in BOOLEAN :
        Apply(setDrawFlag(Machine, condition), "setDrawFlag", <<condition>>, 0)

DoSetIndexRegister ==
    \E value \in IndexRegisterSamples :
        Apply(setIndexRegister(Machine, value), "setIndexRegister", <<value>>, 0)

DoGetMemoryAt ==
    \E address \in AddressSamples, addressBits \in AddressBits :
        Apply(Machine, "getMemoryAt", <<address, addressBits>>,
              getMemoryAt(Machine, address, addressBits))

DoGetStackAt ==
    \E subroutine \in StackIndexSamples :
        Apply(Machine, "getStackAt", <<subroutine>>, getStackAt(Machine, subroutine))

DoGetRegisterAt ==
    \E reg \in RegisterIndexSamples :
        Apply(Machine, "getRegisterAt", <<reg>>, getRegisterAt(Machine, reg))

(* Spec: any sequence of at most MaxOps calls on a freshly constructed     *)
(* machine.  Its loads take four of the files; SpecRom takes them all.     *)
Init == StartIn(Chip8)

CallInit == nops < MaxOps /\ DoInit
CallLoadRom == nops < MaxOps /\ DoLoadRom(SmallRomIds)
CallEmulateCycle == nops < MaxOps /\ DoEmulateCycle
CallSetPixel == nops < MaxOps /\ DoSetPixel
CallGetPixel == nops < MaxOps /\ DoGetPixel
CallSetKeyState == nops < MaxOps /\ DoSetKeyState
CallIsKeyPressed == nops < MaxOps /\ DoIsKeyPressed
CallSetMemory == nops < MaxOps /\ DoSetMemory
CallSetProgramCounter == nops < MaxOps /\ DoSetProgramCounter
CallSetStack == nops < MaxOps /\ DoSetStack
CallSetStackPointer == nops < MaxOps /\ DoSetStackPointer
CallSetRegisterAt == nops < MaxOps /\ DoSetRegisterAt
CallSetDelayTimer == nops < MaxOps /\ DoSetDelayTimer
CallSetDrawFlag == nops < MaxOps /\ DoSetDrawFlag
CallSetIndexRegister == nops < MaxOps /\ DoSetIndexRegister
CallGetMemoryAt == nops < MaxOps /\ DoGetMemoryAt
CallGetStackAt == nops < MaxOps /\ DoGetStackAt
CallGetRegisterAt == nops < MaxOps /\ DoGetRegisterAt

Next ==
    \/ CallInit
    \/ CallLoadRom
    \/ CallEmulateCycle
    \/ CallSetPixel
    \/ CallGetPixel
    \/ CallSetKeyState
    \/ CallIsKeyPressed
    \/ CallSetMemory
    \/ CallSetProgramCounter
    \/ CallSetStack
    \/ CallSetStackPointer
    \/ CallSetRegisterAt
    \/ CallSetDelayTimer
    \/ CallSetDrawFlag
    \/ CallSetIndexRegister
    \/ CallGetMemoryAt
    \/ CallGetStackAt
    \/ CallGetRegisterAt

Spec == Init /\ [][Next]_vars

----------------------------------------------------------------------------
(* SpecRom: loads of every file, the largest included, among writes to     *)
(* memory and cycles, on a freshly constructed machine.                    *)

RomLoadRom == nops < MaxRomOps /\ DoLoadRom(RomIds)
RomSetMemory == nops < MaxRomOps /\ DoSetMemory
RomSetRegisterAt == nops < MaxRomOps /\ DoSetRegisterAt
RomEmulateCycle == nops < MaxRomOps /\ DoEmulateCycle

RomNext ==
    \/ RomLoadRom
    \/ RomSetMemory
    \/ RomSetRegisterAt
    \/ RomEmulateCycle

SpecRom == Init /\ [][RomNext]_vars

----------------------------------------------------------------------------
(* SpecDecode: a freshly constructed machine into which a two-byte ROM     *)
(* holding any one instruction word has been loaded, then cycles.          *)

WordRom(w) == [open |-> TRUE, readOk |-> TRUE, bytes |-> <<w \div 256, w % 256>>]

DecodeInit == \E w \in 0..65535 : StartIn(loadRom(Chip8, WordRom(w)).c)

DecodeEmulateCycle == nops < MaxDecodeCycles /\ DoEmulateCycle

DecodeNext == DecodeEmulateCycle

SpecDecode == DecodeInit /\ [][DecodeNext]_vars

----------------------------------------------------------------------------
(* SpecUnit: a machine set up the way the unit tests set it up (init, then *)
(* the setters: setMemory at the program counter, setRegisterAt, setStack, *)
(* setStackPointer, setProgramCounter, setIndexRegister, setDelayTimer,    *)
(* setKeyState), then cycles and key events.  The sound timer has no       *)
(* setter; FX18 sets it.  A setup is a record of what was set.             *)

ZeroRegisters == [i \in 0..(REGISTER_COUNT - 1) |-> 0]

Regs(v0, v1, v2, vf) ==
    [i \in 0..(REGISTER_COUNT - 1) |->
        CASE i = 0 -> v0 [] i = 1 -> v1 [] i = 2 -> v2 [] i = 15 -> vf [] OTHER -> 0]

(* Stack slot s holds base + 2 * s, but the slot below the pointer holds   *)
(* top.                                                                    *)
StackOf(sp, top) ==
    [i \in 0..(STACK_SIZE - 1) |-> IF i = sp - 1 THEN top ELSE 768 + 2 * i]

DefaultSetup ==
    [pc |-> ROM_START_ADDRESS, word |-> 0, regs |-> ZeroRegisters, sp |-> 0,
     stack |-> [i \in 0..(STACK_SIZE - 1) |-> 0], index |-> 0, delay |-> 0,
     sound |-> 0, keys |-> {}, error |-> None, tail |-> <<>>]

(* The machine a setup leaves.  The instruction word goes to memory at pc, *)
(* byte by byte, where the address is one setMemory accepts; the bytes of  *)
(* tail go to the last cells of memory.                                    *)
SetupMachine(p) ==
    LET m1 == IF isValidMemoryAddress(p.pc)
              THEN WriteCell(FontMemory, p.pc, p.word \div 256)
              ELSE FontMemory
        m2 == IF isValidMemoryAddress(p.pc + 1)
              THEN WriteCell(m1, p.pc + 1, p.word % 256)
              ELSE m1
        m3 == CopyBytes(m2, p.tail, MEMORY_SIZE - Len(p.tail))
    IN  [Chip8 EXCEPT !.memory_ = m3,
                      !.programCounter_ = p.pc,
                      !.registers_ = p.regs,
                      !.stackPointer_ = p.sp,
                      !.stack_ = p.stack,
                      !.indexRegister_ = p.index,
                      !.delayTimer_ = p.delay,
                      !.soundTimer_ = p.sound,
                      !.keyboard_ = [k \in 0..(KEYBOARD_SIZE - 1) |->
                                        IF k \in p.keys THEN 1 ELSE 0],
                      !.lastError_ = p.error]

(* One word or more of every instruction, and words of no instruction.     *)
WordSamples ==
    {\h00E0, \h00EE, \h0000, \h0123, \h1300, \h2300, \h3142, \h4142, \h5120,
     \h5121, \h6142, \h71FF, \h8120, \h8121, \h8122, \h8123, \h8124, \h8125,
     \h8126, \h8127, \h812E, \h8128, \h8F14, \h81F5, \h9120, \h9123, \hA300,
     \hB300, \hBFFF, \hC1FF, \hD125, \hE19E, \hE1A1, \hE10E, \hE101, \hE100,
     \hF107, \hF10A, \hF115, \hF118, \hF11E, \hF129, \hF133, \hF155, \hF165,
     \hF1FF}

RegisterFiles ==
    {Regs(0, 0, 0, 0), Regs(1, 5, 5, 1), Regs(16, 255, 1, 0), Regs(255, 66, 255, 7)}

TimerPairs == {<<0, 0>>, <<1, 1>>, <<5, 200>>}

GeneralSetups ==
    {[DefaultSetup EXCEPT !.word = w, !.regs = r, !.delay = t[1], !.sound = t[2],
                          !.index = i] :
        w \in WordSamples, r \in RegisterFiles, t \in TimerPairs, i \in {768, 4095}}

StackSetups ==
    {[DefaultSetup EXCEPT !.word = w, !.sp = sp, !.stack = StackOf(sp, top),
                          !.error = e, !.delay = 2] :
        w \in {\h00EE, \h2300, \h2FFF},
        sp \in {0, 1, 2, 15, 16},
        top \in {768, 65534, 65535},
        e \in {None, UnknownOpcode}}

KeySetups ==
    {[DefaultSetup EXCEPT !.word = w, !.keys = k, !.regs = Regs(0, v1, 0, 9),
                          !.delay = 1, !.sound = 1] :
        w \in {\hF10A, \hFF0A, \hE19E, \hE1A1},
        k \in {{}, {5}, {3, 5}, {0, 15}},
        v1 \in {0, 5, 16}}

BoundarySetups ==
    {[DefaultSetup EXCEPT !.pc = pc, !.word = w, !.delay = t[1], !.sound = t[2],
                          !.regs = Regs(0, 0, 3, 1), !.index = 768, !.sp = 1,
                          !.stack = StackOf(1, 768), !.error = e] :
        pc \in {4093, 4094, 4095},
        w \in {\h3100, \h6142, \h1FFF, \h00E0},
        t \in {<<0, 0>>, <<5, 7>>},
        e \in {None, StackOverflow}}

(* Draws of a sprite that starts in the last two cells of memory.          *)
TailDrawSetups ==
    {[DefaultSetup EXCEPT !.word = w, !.index = i, !.regs = r, !.delay = 3,
                          !.tail = <<60, 128>>] :
        w \in {\hD121, \hD122, \hD125, \hDF25},
        i \in {4094, 4095, 4096},
        r \in {Regs(0, 0, 0, 7), Regs(0, 62, 31, 0)}}

UnitSetups ==
    GeneralSetups \cup StackSetups \cup KeySetups \cup BoundarySetups \cup TailDrawSetups

UnitInit == \E p \in UnitSetups : StartIn(SetupMachine(p))

UnitKeySamples == {<<5, TRUE>>, <<3, TRUE>>, <<5, FALSE>>}

UnitEmulateCycle == nops < MaxUnitOps /\ DoEmulateCycle

UnitSetKeyState ==
    /\ nops < MaxUnitOps
    /\ \E k \in UnitKeySamples :
           Apply(setKeyState(Machine, k[1], k[2]), "setKeyState", k, 0)

UnitNext ==
    \/ UnitEmulateCycle
    \/ UnitSetKeyState

SpecUnit == UnitInit /\ [][UnitNext]_vars

----------------------------------------------------------------------------
(* SpecAlu: one cycle on an 8XYN word, for register indices X and Y among  *)
(* 1, 2, 14 and 15 (X = Y included), every N with an instruction, and      *)
(* registers set with setRegisterAt: VX and VY from the edge values of a   *)
(* byte, VF 0 or 9 where it is neither, and 16 + i in every other Vi.      *)

AluIndices == {1, 2, 14, 15}
AluOperations == {0, 1, 2, 3, 4, 5, 6, 7, 14}
AluValues == {0, 1, 127, 128, 255}

AluWord(x, y, n) == 8 * 4096 + x * 256 + y * 16 + n

AluRegisters(x, y, vx, vy, vf) ==
    [i \in 0..(REGISTER_COUNT - 1) |->
        IF i = y THEN vy ELSE IF i = x THEN vx ELSE IF i = 15 THEN vf ELSE 16 + i]

AluInit ==
    \E x \in AluIndices, y \in AluIndices, n \in AluOperations,
       vx \in AluValues, vy \in AluValues, vf \in {0, 9} :
        StartIn(SetupMachine([DefaultSetup EXCEPT
                                  !.word = AluWord(x, y, n),
                                  !.regs = AluRegisters(x, y, vx, vy, vf),
                                  !.delay = 3]))

AluEmulateCycle == nops < MaxAluCycles /\ DoEmulateCycle

AluNext == AluEmulateCycle

SpecAlu == AluInit /\ [][AluNext]_vars

----------------------------------------------------------------------------
(* SpecDraw: cycles on a DXYN word stored twice in a row at 0x200, on a    *)
(* machine set up with the setters: the position registers V1 and V2 (VF   *)
(* where X or Y is F), the index register at a glyph, at the last bytes of *)
(* memory or beyond it, sprite bytes written to the last five cells, and   *)
(* pixels written with setPixel.                                           *)

DrawWords == {\hD120, \hD121, \hD125, \hD12F, \hD1F5, \hDF25, \hD115}
DrawPositions == {<<0, 0>>, <<60, 30>>, <<63, 31>>, <<255, 200>>}
DrawIndexSamples == {0, 75, 4091, 4094, 4096}

(* setMemory(4091 + i, b) for the five bytes b below.                      *)
TailSprite == <<255, 129, 0, 60, 128>>

(* setPixel(x, y, value) for the triples of a display.                     *)
DrawDisplays ==
    {{},
     {<<0, 0, 1>>, <<1, 0, 1>>, <<7, 4, 1>>, <<60, 30, 1>>, <<63, 31, 1>>, <<20, 20, 1>>},
     {<<0, 0, 2>>, <<3, 1, 1>>, <<20, 20, 255>>}}

PixelsOf(display) ==
    [i \in {p[2] * DISPLAY_WIDTH + p[1] : p \in display} |->
        (CHOOSE p \in display : p[2] * DISPLAY_WIDTH + p[1] = i)[3]]

DrawMachine(word, position, vf, index, display) ==
    LET m == SetupMachine([DefaultSetup EXCEPT
                               !.word = word,
                               !.regs = Regs(0, position[1], position[2], vf),
                               !.index = index,
                               !.delay = 2])
        tail == [a \in 4091..4095 |-> TailSprite[a - 4090]]
    IN  [m EXCEPT !.memory_ =
                      [a \in DOMAIN m.memory_ \cup {514, 515} \cup {4091, 4092, 4094, 4095} |->
                          CASE a = 514 -> word \div 256
                            [] a = 515 -> word % 256
                            [] a >= 4091 -> tail[a]
                            [] OTHER -> m.memory_[a]],
                  !.frameBuffer_ = PixelsOf(display)]

DrawInit ==
    \E word \in DrawWords, position \in DrawPositions, vf \in {0, 7},
       index \in DrawIndexSamples, display \in DrawDisplays :
        StartIn(DrawMachine(word, position, vf, index, display))

DrawEmulateCycle == nops < MaxDrawCycles /\ DoEmulateCycle

DrawNext == DrawEmulateCycle

SpecDraw == DrawInit /\ [][DrawNext]_vars

----------------------------------------------------------------------------
(* SpecProgram: a freshly constructed machine into which a ROM of a few    *)
(* instruction words has been loaded, registers and the index register set *)
(* with setRegisterAt and setIndexRegister, then cycles; the run is         *)
(* recorded in history.                                                     *)

RECURSIVE BytesOf(_)
BytesOf(words) ==
    IF words = <<>> THEN <<>>
    ELSE <<Head(words) \div 256, Head(words) % 256>> \o BytesOf(Tail(words))

RomOf(words) == [open |-> TRUE, readOk |-> TRUE, bytes |-> BytesOf(words)]

ProgramMachine(words, regs, index) ==
    [loadRom(Chip8, RomOf(words)).c EXCEPT !.registers_ = regs,
                                           !.indexRegister_ = index]

(* Register x holds v and every other register i holds 32 + 3 * i.         *)
RegistersWith(x, v) ==
    [i \in 0..(REGISTER_COUNT - 1) |-> IF i = x THEN v ELSE 32 + 3 * i]

FWord(x, nn) == 15 * 4096 + x * 256 + nn

BcdValues == {0, 9, 10, 99, 100, 123, 199, 255}
BcdIndices == {768, 4093, 4094, 65535}

BcdPrograms ==
    {ProgramMachine(<<FWord(x, \h33)>>, RegistersWith(x, v), i) :
        x \in {1, 15}, v \in BcdValues, i \in BcdIndices}

CopyRanges == {0, 2, 15}
CopyIndices == {768, 4080, 4081, 4093, 4094, 4095}
CopyInterludes == {<<>>, <<\h60AA, \h6FCC>>, <<\h7001, \h8124>>, <<\hC0FF, \h8216>>}

StorePrograms ==
    {ProgramMachine(<<FWord(x, \h55)>> \o between \o <<FWord(x, \h65)>>,
                    RegistersWith(1, v), i) :
        x \in CopyRanges, between \in CopyInterludes, i \in CopyIndices, v \in {0, 200}}

(* Loads from the font, from the end of the font, from the ROM itself and  *)
(* from the end of memory.                                                 *)
LoadPrograms ==
    {ProgramMachine(<<FWord(x, \h65)>>, RegistersWith(1, 200), i) :
        x \in CopyRanges, i \in {0, 78, 512, 4081, 4094}}

FontPrograms ==
    {ProgramMachine(<<FWord(x, \h29)>>, RegistersWith(x, v), 768) :
        x \in {1, 15}, v \in {0, 5, 15, 16, 255}}

AddWord(x, nn) == 7 * 4096 + x * 256 + nn

(* 7XNN in a row, and 7XNN in the loop of LongRunningExecution.            *)
AddPrograms ==
    {ProgramMachine(IF looping
                    THEN <<AddWord(x, nn), \h1200>>
                    ELSE <<AddWord(x, nn), AddWord(x, nn), AddWord(x, nn), AddWord(x, nn)>>,
                    RegistersWith(x, v), 768) :
        x \in {1, 15}, v \in {0, 1, 200, 255}, nn \in {0, 1, 100, 255},
        looping \in BOOLEAN}

Programs ==
    BcdPrograms \cup StorePrograms \cup LoadPrograms \cup FontPrograms \cup AddPrograms

ProgramInit == \E m \in Programs : StartRecordedIn(m)

ProgramEmulateCycle == nops < MaxProgramCycles /\ DoEmulateCycle

ProgramNext == ProgramEmulateCycle

SpecProgram == ProgramInit /\ [][ProgramNext]_vars

----------------------------------------------------------------------------
(* SpecCalls: a ROM of calls and returns, or one that ends in a word the   *)
(* machine stops at, loaded into a freshly constructed machine whose stack *)
(* pointer was set with setStackPointer, then cycles; the run is recorded  *)
(* in history.                                                             *)

(* depth routines, routine k at 0x200 + 4 * k: it calls routine k + 1 and  *)
(* returns; the last routine only returns, and the word after the first    *)
(* call jumps to itself.                                                   *)
NestedCalls(depth) ==
    [j \in 1..(2 * depth + 2) |->
        LET k == (j - 1) \div 2
        IN  IF j % 2 = 1
            THEN IF k < depth THEN 2 * 4096 + ROM_START_ADDRESS + 4 * (k + 1) ELSE \h00EE
            ELSE IF k = 0 THEN \h1202 ELSE \h00EE]

(* The ROM of SubroutineCallAndReturn, integration_test.cpp lines 152-191. *)
SubroutineRom ==
    [j \in 1..10 |->
        CASE j = 1 -> \h2210 [] j = 2 -> \h60FF [] j = 3 -> \h1206
          [] j = 9 -> \h6142 [] j = 10 -> \h00EE [] OTHER -> 0]

(* Two calls of one routine in a row, then a call of a routine that calls  *)
(* the first.                                                              *)
SiblingCalls ==
    [j \in 1..18 |->
        CASE j = 1 -> \h2210 [] j = 2 -> \h2210 [] j = 3 -> \h2220 [] j = 4 -> \h1206
          [] j = 9 -> \h00EE [] j = 17 -> \h2210 [] j = 18 -> \h00EE [] OTHER -> 0]

CallDepths == {1, 2, 16, 17}

(* Both timers set from V1, then a word of no instruction, and then a      *)
(* return.                                                                 *)
StoppingRoms ==
    {<<\h6109, \hF115, \hF118, w>> : w \in {\h8128, \hF1FF, \hE100, \h0123, \h00EE}}

CallPrograms ==
    {NestedCalls(d) : d \in CallDepths} \cup {SubroutineRom, SiblingCalls}
    \cup StoppingRoms

CallsInit ==
    \E words \in CallPrograms, sp \in {0, 2} :
        StartRecordedIn([loadRom(Chip8, RomOf(words)).c EXCEPT !.stackPointer_ = sp])

CallsEmulateCycle == nops < MaxCallCycles /\ DoEmulateCycle

CallsNext == CallsEmulateCycle

SpecCalls == CallsInit /\ [][CallsNext]_vars

----------------------------------------------------------------------------
(* SpecStack: a ROM that calls itself until the stack is full and then     *)
(* returns until it is empty, loaded into a freshly constructed machine;   *)
(* cycles among setStackPointer, setStack, init and loadRom calls.         *)

RecursionRom == RomOf(<<\h2200, \h00EE>>)

StackInit == StartIn(loadRom(Chip8, RecursionRom).c)

StackEmulateCycle == nops < MaxStackOps /\ DoEmulateCycle
StackSetStackPointer == nops < MaxStackOps /\ DoSetStackPointer
StackSetStack == nops < MaxStackOps /\ DoSetStack
StackReset == nops < MaxStackOps /\ DoInit
StackLoadRom ==
    /\ nops < MaxStackOps
    /\ LET r == loadRom(Machine, RecursionRom)
       IN  Apply(r.c, "loadRom", <<>>, r.ret)

StackNext ==
    \/ StackEmulateCycle
    \/ StackSetStackPointer
    \/ StackSetStack
    \/ StackReset
    \/ StackLoadRom

SpecStack == StackInit /\ [][StackNext]_vars

----------------------------------------------------------------------------
(* SpecMain: the loop of main(), main.cpp lines 145-168, on a machine into *)
(* which a ROM that clears the screen and draws was loaded: a cycle, the   *)
(* key events polled, render, and setDrawFlag(false) if the redraw flag is *)
(* set.  The last operation called tells where the loop stands.            *)

MainRoms == {<<\h00E0, \h6105, \hD115, \h1202>>, <<\h6105, \h1200>>}

MainInit == \E words \in MainRoms : StartIn(loadRom(Chip8, RomOf(words)).c)

(* The key events SDL_PollEvent delivers to handleKeyEvent, lines 102-113. *)
MainKeyEvents == {<<5, TRUE>>, <<5, FALSE>>}

(* emulator.emulateCycle(), line 146: the first statement of an iteration. *)
MainEmulateCycle ==
    /\ nops < MaxMainOps
    /\ \/ call.op \in {"Chip8", "setDrawFlag"}
       \/ call.op = "render" /\ ~drawFlag_
    /\ DoEmulateCycle

(* handleKeyEvent(event, emulator), lines 154-160.                         *)
MainHandleKeyEvent ==
    /\ nops < MaxMainOps
    /\ call.op \in {"emulateCycle", "setKeyState"}
    /\ \E k \in MainKeyEvents :
           Apply(setKeyState(Machine, k[1], k[2]), "setKeyState", k, 0)

(* renderer.render(emulator), lines 80-93 and 162: it reads the machine    *)
(* and presents a frame if the redraw flag is set.                         *)
MainRender ==
    /\ nops < MaxMainOps
    /\ call.op \in {"emulateCycle", "setKeyState"}
    /\ Apply(Machine, "render", <<>>, drawFlag_)

(* if (emulator.getDrawFlag()) emulator.setDrawFlag(false), lines 163-165. *)
MainAcknowledge ==
    /\ nops < MaxMainOps
    /\ call.op = "render"
    /\ drawFlag_
    /\ Apply(setDrawFlag(Machine, FALSE), "setDrawFlag", <<FALSE>>, 0)

MainNext ==
    \/ MainEmulateCycle
    \/ MainHandleKeyEvent
    \/ MainRender
    \/ MainAcknowledge

SpecMain == MainInit /\ [][MainNext]_vars

----------------------------------------------------------------------------
(* The claims.  In a state reached by a call, call is the call, pre the    *)
(* machine at its entry and the variables the machine at its return.       *)

IsCycle == call.op = "emulateCycle"

(* The instruction word at the program counter when the call was entered.  *)
WordAtEntry ==
    CellAt(pre.memory_, pre.programCounter_) * 256
    + CellAt(pre.memory_, pre.programCounter_ + 1)

(* A cycle that got past the bounds check of the program counter.          *)
IsFetchingCycle == IsCycle /\ pre.programCounter_ < 4095

(* C1: a cycle entered with the program counter at or beyond 4095 fetches  *)
(* nothing (opcode_ keeps its value), records InvalidMemoryAccess and      *)
(* leaves the program counter, memory, registers, index register, stack,   *)
(* stack pointer, both timers, the display and the redraw flag as they     *)
(* were.                                                                   *)
C1_GuardLeavesStateUnchanged ==
    (IsCycle /\ pre.programCounter_ >= 4095) =>
        /\ lastError_ = InvalidMemoryAccess
        /\ opcode_ = pre.opcode_
        /\ programCounter_ = pre.programCounter_
        /\ memory_ = pre.memory_
        /\ registers_ = pre.registers_
        /\ indexRegister_ = pre.indexRegister_
        /\ stack_ = pre.stack_
        /\ stackPointer_ = pre.stackPointer_
        /\ delayTimer_ = pre.delayTimer_
        /\ soundTimer_ = pre.soundTimer_
        /\ frameBuffer_ = pre.frameBuffer_
        /\ drawFlag_ = pre.drawFlag_

(* A cycle entered at 4098, where a taken skip at 4094 left the program    *)
(* counter, with both timers running.                                      *)
C1_Witness ==
    /\ IsCycle
    /\ pre.programCounter_ = 4098
    /\ pre.delayTimer_ = 4
    /\ pre.soundTimer_ = 6
    /\ pre.lastError_ = None
    /\ lastError_ = InvalidMemoryAccess

(* The encodings the instruction set defines: 00E0, 00EE, 1NNN, 2NNN,      *)
(* 3XNN, 4XNN, 5XY0, 6XNN, 7XNN, 8XY0..8XY7, 8XYE, 9XY0, ANNN, BNNN, CXNN, *)
(* DXYN, EX9E, EXA1, FX07, FX0A, FX15, FX18, FX1E, FX29, FX33, FX55, FX65. *)
IsDefinedEncoding(w) ==
    LET family == w \div 4096
        n == w % 16
        nn == w % 256
    IN  \/ w = \h00E0
        \/ w = \h00EE
        \/ family \in {1, 2, 3, 4, 6, 7, 10, 11, 12, 13}
        \/ family = 5 /\ n = 0
        \/ family = 8 /\ n \in (0..7) \cup {14}
        \/ family = 9 /\ n = 0
        \/ family = 14 /\ nn \in {\h9E, \hA1}
        \/ family = 15 /\ nn \in {\h07, \h0A, \h15, \h18, \h1E, \h29, \h33, \h55, \h65}

(* C2: a cycle that fetches a word that is not a defined encoding records  *)
(* UnknownOpcode and leaves the program counter, registers, index          *)
(* register, memory, stack, stack pointer, display and redraw flag         *)
(* unchanged.                                                              *)
C2_UndefinedWordIsRejected ==
    (IsFetchingCycle /\ ~IsDefinedEncoding(WordAtEntry)) =>
        /\ lastError_ = UnknownOpcode
        /\ programCounter_ = pre.programCounter_
        /\ registers_ = pre.registers_
        /\ indexRegister_ = pre.indexRegister_
        /\ memory_ = pre.memory_
        /\ stack_ = pre.stack_
        /\ stackPointer_ = pre.stackPointer_
        /\ frameBuffer_ = pre.frameBuffer_
        /\ drawFlag_ = pre.drawFlag_

(* The X field of the word at entry, and the keys down at entry.           *)
XAtEntry == (WordAtEntry \div 256) % 16
KeysDownAtEntry == {k \in 0..15 : pre.keyboard_[k] # 0}

IsFX0A(w) == w \div 4096 = 15 /\ w % 256 = \h0A

(* C3: a cycle that fetches FX0A with no key down leaves the program       *)
(* counter, every register and memory unchanged, so the next cycle fetches *)
(* FX0A again; with a key down it stores the lowest index of a key that is *)
(* down in register X, changes no other register and advances the program *)
(* counter by 2.                                                           *)
C3_KeyWait ==
    (IsFetchingCycle /\ IsFX0A(WordAtEntry)) =>
        IF KeysDownAtEntry = {}
        THEN /\ programCounter_ = pre.programCounter_
             /\ registers_ = pre.registers_
             /\ memory_ = pre.memory_
        ELSE /\ programCounter_ = pre.programCounter_ + 2
             /\ \E k \in KeysDownAtEntry :
                    /\ \A j \in KeysDownAtEntry : k <= j
                    /\ registers_ = [pre.registers_ EXCEPT ![XAtEntry] = k]

(* After a cycle that waited, key 5 goes down and the next cycle stores 5  *)
(* in register 1 and moves on.                                             *)
C3_Witness ==
    /\ IsCycle
    /\ WordAtEntry = \hF10A
    /\ pre.call.op = "setKeyState"
    /\ pre.call.args = <<5, TRUE>>
    /\ KeysDownAtEntry = {5}
    /\ pre.registers_[1] # 5
    /\ registers_[1] = 5
    /\ programCounter_ = pre.programCounter_ + 2

(* C4: a cycle that fetches 2NNN with the stack pointer at 16 records      *)
(* StackOverflow, advances the program counter by 2 and not to NNN, and    *)
(* leaves the stack pointer at 16 and the sixteen stack slots unchanged.   *)
C4_CallOnFullStack ==
    (IsFetchingCycle /\ WordAtEntry \div 4096 = 2 /\ pre.stackPointer_ = 16) =>
        /\ lastError_ = StackOverflow
        /\ programCounter_ = pre.programCounter_ + 2
        /\ stackPointer_ = 16
        /\ stack_ = pre.stack_

C4_Witness ==
    /\ IsCycle
    /\ WordAtEntry = \h2300
    /\ pre.stackPointer_ = 16
    /\ pre.programCounter_ = 512
    /\ programCounter_ = 514
    /\ lastError_ = StackOverflow

(* C5 as stated: a cycle that fetches 00EE with the stack pointer at 0     *)
(* records StackUnderflow and changes neither the program counter nor the  *)
(* stack pointer; otherwise the stack pointer goes down by 1 and the       *)
(* program counter becomes the value in the slot at the new stack pointer  *)
(* plus 2.                                                                 *)
C5_ReturnAsStated ==
    (IsFetchingCycle /\ WordAtEntry = \h00EE) =>
        IF pre.stackPointer_ = 0
        THEN /\ lastError_ = StackUnderflow
             /\ programCounter_ = pre.programCounter_
             /\ stackPointer_ = 0
        ELSE /\ stackPointer_ = pre.stackPointer_ - 1
             /\ programCounter_ = pre.stack_[stackPointer_] + 2

(* C5, amended: the sum is taken in the 16 bits of the program counter, so *)
(* the program counter becomes (slot + 2) mod 65536.                       *)
C5_Return ==
    (IsFetchingCycle /\ WordAtEntry = \h00EE) =>
        IF pre.stackPointer_ = 0
        THEN /\ lastError_ = StackUnderflow
             /\ programCounter_ = pre.programCounter_
             /\ stackPointer_ = 0
        ELSE /\ stackPointer_ = pre.stackPointer_ - 1
             /\ programCounter_ = (pre.stack_[stackPointer_] + 2) % 65536

(* The scenario of the specification: stack pointer 2, slot 1 holding      *)
(* 0x300, and one cycle on 00EE.                                           *)
C5_Witness ==
    /\ IsCycle
    /\ WordAtEntry = \h00EE
    /\ pre.stackPointer_ = 2
    /\ pre.stack_[1] = 768
    /\ programCounter_ = 770
    /\ stackPointer_ = 1

(* One tick of a timer: down by 1, staying at 0.                           *)
Tick(v) == IF v > 0 THEN v - 1 ELSE 0

(* C6 as stated: every cycle that fetches, whether its instruction         *)
(* succeeded, failed or waited for a key, leaves each timer one below its  *)
(* value before the cycle if that value was nonzero, and at 0 if it was 0. *)
C6_TimersAsStated ==
    IsFetchingCycle =>
        /\ delayTimer_ = Tick(pre.delayTimer_)
        /\ soundTimer_ = Tick(pre.soundTimer_)

(* The value the instruction of the cycle leaves in each timer: FX15 and   *)
(* FX18 store register X, every other instruction leaves the timer alone.  *)
DelayBeforeTick ==
    IF WordAtEntry \div 4096 = 15 /\ WordAtEntry % 256 = \h15
    THEN pre.registers_[XAtEntry] ELSE pre.delayTimer_
SoundBeforeTick ==
    IF WordAtEntry \div 4096 = 15 /\ WordAtEntry % 256 = \h18
    THEN pre.registers_[XAtEntry] ELSE pre.soundTimer_

(* C6, amended: every cycle that fetches, whether its instruction          *)
(* succeeded, failed or waited for a key, ticks each timer exactly once    *)
(* after the instruction: the timer ends one below the value the           *)
(* instruction left in it, or at 0 if that value was 0.  Only FX15 (delay) *)
(* and FX18 (sound) leave a value other than the one before the cycle.     *)
C6_TimerTick ==
    IsFetchingCycle =>
        /\ delayTimer_ = Tick(DelayBeforeTick)
        /\ soundTimer_ = Tick(SoundBeforeTick)

(* A cycle whose instruction failed, ticking both timers.                  *)
C6_Witness ==
    /\ IsFetchingCycle
    /\ lastError_ = UnknownOpcode
    /\ pre.delayTimer_ = 5
    /\ pre.soundTimer_ = 200
    /\ delayTimer_ = 4
    /\ soundTimer_ = 199

----------------------------------------------------------------------------
(* Claims about the accessors, init and loadRom.                           *)

(* C7: setMemory(a, v) with a < 4096 followed at once by getMemoryAt(a)    *)
(* returns v; setMemory(a, v) with a >= 4096 changes no memory cell and    *)
(* leaves InvalidMemoryAccess as the last error.                           *)
C7_MemoryRoundTrip ==
    /\ (call.op = "setMemory" /\ call.args[1] >= 4096) =>
           /\ memory_ = pre.memory_
           /\ lastError_ = InvalidMemoryAccess
    /\ (/\ call.op = "getMemoryAt"
        /\ pre.call.op = "setMemory"
        /\ pre.call.args[1] = call.args[1]
        /\ call.args[1] < 4096) =>
           call.ret = pre.call.args[2]

(* C8: setRegisterAt(r, v) with r <= 15 followed at once by                *)
(* getRegisterAt(r) returns v; with r > 15 the write changes no register   *)
(* and records InvalidRegisterAccess, and the read returns 0, changes no   *)
(* register and records InvalidRegisterAccess.                             *)
C8_RegisterRoundTrip ==
    /\ (call.op = "setRegisterAt" /\ call.args[1] > 15) =>
           /\ registers_ = pre.registers_
           /\ lastError_ = InvalidRegisterAccess
    /\ (/\ call.op = "getRegisterAt"
        /\ pre.call.op = "setRegisterAt"
        /\ pre.call.args[1] = call.args[1]
        /\ call.args[1] <= 15) =>
           call.ret = pre.call.args[2]
    /\ (call.op = "getRegisterAt" /\ call.args[1] > 15) =>
           /\ call.ret = 0
           /\ registers_ = pre.registers_
           /\ lastError_ = InvalidRegisterAccess

(* The thirteen members as they are now and as they were before the call.  *)
MembersNow ==
    <<memory_, registers_, stack_, frameBuffer_, keyboard_, indexRegister_,
      stackPointer_, delayTimer_, soundTimer_, programCounter_, opcode_,
      drawFlag_, lastError_>>
MembersBefore ==
    <<pre.memory_, pre.registers_, pre.stack_, pre.frameBuffer_, pre.keyboard_,
      pre.indexRegister_, pre.stackPointer_, pre.delayTimer_, pre.soundTimer_,
      pre.programCounter_, pre.opcode_, pre.drawFlag_, pre.lastError_>>

(* C9: whatever calls came before, after init() the program counter is     *)
(* 0x200, the registers, the index register, the stack slots, the stack    *)
(* pointer and both timers are 0, no pixel is lit and no key is down, the  *)
(* redraw flag is false, memory holds the 80 glyph bytes at 0..79 and 0    *)
(* everywhere else, and the last error is None; an init() that follows an  *)
(* init() changes nothing.                                                 *)
C9_InitResets ==
    (call.op = "init") =>
        /\ programCounter_ = 512
        /\ \A r \in 0..15 : registers_[r] = 0
        /\ indexRegister_ = 0
        /\ \A l \in 0..15 : stack_[l] = 0
        /\ stackPointer_ = 0
        /\ delayTimer_ = 0
        /\ soundTimer_ = 0
        /\ \A p \in 0..2047 : CellAt(frameBuffer_, p) = 0
        /\ \A k \in 0..15 : keyboard_[k] = 0
        /\ drawFlag_ = FALSE
        /\ \A a \in 0..79 : CellAt(memory_, a) = FONT_SET[a + 1]
        /\ \A a \in 80..4095 : CellAt(memory_, a) = 0
        /\ lastError_ = None
        /\ (pre.call.op = "init" => MembersNow = MembersBefore)

(* init() on a machine whose memory was written and that has run a cycle. *)
C9_Witness ==
    /\ call.op = "init"
    /\ pre.call.op = "emulateCycle"
    /\ pre.memory_ # FontMemory
    /\ pre.indexRegister_ # 0
    /\ pre.programCounter_ # 512
    /\ memory_ = FontMemory
    /\ indexRegister_ = 0
    /\ programCounter_ = 512

(* The file a loadRom call was given, and its length.                      *)
LoadedFile == RomFile(call.args[1])
LoadedSize == Len(LoadedFile.bytes)

(* C10: loadRom on a readable file of N bytes, 1 <= N <= 3584, returns     *)
(* true and leaves byte i of the file in memory cell 0x200 + i for every   *)
(* i < N; on a file of 0 bytes or of more than 3584 bytes it returns       *)
(* false, records an error and changes no memory cell.                     *)
C10_LoadRom ==
    (call.op = "loadRom" /\ LoadedFile.open) =>
        /\ (LoadedFile.readOk /\ LoadedSize >= 1 /\ LoadedSize <= 3584) =>
               /\ call.ret = TRUE
               /\ \A i \in 0..(LoadedSize - 1) :
                      CellAt(memory_, 512 + i) = LoadedFile.bytes[i + 1]
        /\ (LoadedSize = 0 \/ LoadedSize > 3584) =>
               /\ call.ret = FALSE
               /\ lastError_ # None
               /\ memory_ = pre.memory_

(* The largest file that fits, loaded over a memory already written.       *)
C10_Witness ==
    /\ call.op = "loadRom"
    /\ LoadedSize = 3584
    /\ call.ret = TRUE
    /\ pre.call.op = "setMemory"
    /\ CellAt(pre.memory_, 4095) = 171
    /\ CellAt(memory_, 4095) = LoadedFile.bytes[3584]
    /\ CellAt(memory_, 4095) # 171

(* C11: a loadRom that returns true changes only the memory cells from     *)
(* 0x200 to 0x200 + N - 1, N the length of the file: the program counter,  *)
(* the registers, the index register, the stack, the stack pointer, the    *)
(* timers, the display, the key states, the redraw flag and every memory   *)
(* cell outside that range, bytes of a longer file loaded before included, *)
(* are as they were before the call.                                       *)
C11_LoadChangesOnlyItsRange ==
    (call.op = "loadRom" /\ call.ret = TRUE) =>
        /\ programCounter_ = pre.programCounter_
        /\ registers_ = pre.registers_
        /\ indexRegister_ = pre.indexRegister_
        /\ stack_ = pre.stack_
        /\ stackPointer_ = pre.stackPointer_
        /\ delayTimer_ = pre.delayTimer_
        /\ soundTimer_ = pre.soundTimer_
        /\ frameBuffer_ = pre.frameBuffer_
        /\ keyboard_ = pre.keyboard_
        /\ drawFlag_ = pre.drawFlag_
        /\ \A a \in (0..4095) \ (512..(512 + LoadedSize - 1)) :
               CellAt(memory_, a) = CellAt(pre.memory_, a)

(* The one-byte file loaded over the 3584-byte file: the second byte of    *)
(* the longer file is still at 0x201.                                      *)
C11_Witness ==
    /\ call.op = "loadRom"
    /\ call.ret = TRUE
    /\ LoadedSize = 1
    /\ pre.call.op = "loadRom"
    /\ pre.call.args = <<5>>
    /\ CellAt(memory_, 512) = 163
    /\ CellAt(memory_, 513) = RomFile(5).bytes[2]
    /\ CellAt(memory_, 513) # 0
    /\ CellAt(memory_, 4095) = RomFile(5).bytes[3584]

(* The write accessors with range checks, whether the last call was one    *)
(* of them with every argument in range, and the error kind each of them   *)
(* gives a call it rejects.                                                *)
IsAcceptedWrite ==
    \/ call.op = "setMemory" /\ call.args[1] < 4096
    \/ call.op = "setRegisterAt" /\ call.args[1] < 16
    \/ call.op = "setStack" /\ call.args[1] < 16
    \/ call.op = "setStackPointer" /\ call.args[1] <= 16
    \/ call.op = "setProgramCounter" /\ call.args[1] < 4096
    \/ call.op = "setPixel" /\ call.args[1] < 64 /\ call.args[2] < 32
    \/ call.op = "setKeyState" /\ call.args[1] < 16

IsRejectedWrite ==
    \/ call.op = "setMemory" /\ call.args[1] >= 4096
    \/ call.op = "setRegisterAt" /\ call.args[1] >= 16
    \/ call.op = "setStack" /\ call.args[1] >= 16
    \/ call.op = "setStackPointer" /\ call.args[1] > 16
    \/ call.op = "setProgramCounter" /\ call.args[1] >= 4096
    \/ call.op = "setPixel" /\ (call.args[1] >= 64 \/ call.args[2] >= 32)

RejectionKind ==
    CASE call.op \in {"setMemory", "setProgramCounter", "setPixel"} -> InvalidMemoryAccess
      [] call.op = "setRegisterAt" -> InvalidRegisterAccess
      [] call.op \in {"setStack", "setStackPointer"} -> StackOverflow

(* C12: after a write accessor call with its arguments in range the last   *)
(* error is None, whatever the call before left there; after a write       *)
(* accessor call that is rejected the last error is the kind of that       *)
(* rejection.                                                              *)
C12_AccessorErrorSlot ==
    /\ IsAcceptedWrite => lastError_ = None
    /\ IsRejectedWrite => lastError_ = RejectionKind

(* C13: a getMemoryAt with an address >= 4096, a getRegisterAt with an     *)
(* index >= 16 and a getStackAt with a slot >= 16 each return 0 and leave  *)
(* InvalidMemoryAccess, InvalidRegisterAccess and StackOverflow            *)
(* respectively as the last error, whatever it was before the read.        *)
C13_OutOfRangeReadRecordsError ==
    /\ (call.op = "getMemoryAt" /\ call.args[1] >= 4096) =>
           (call.ret = 0 /\ lastError_ = InvalidMemoryAccess)
    /\ (call.op = "getRegisterAt" /\ call.args[1] >= 16) =>
           (call.ret = 0 /\ lastError_ = InvalidRegisterAccess)
    /\ (call.op = "getStackAt" /\ call.args[1] >= 16) =>
           (call.ret = 0 /\ lastError_ = StackOverflow)

(* C14: a setKeyState with a key index >= 16 changes no key state and      *)
(* leaves the last error as it was; an isKeyPressed with an index >= 16    *)
(* returns false; an isKeyPressed(k) with k <= 15 that follows             *)
(* setKeyState(k, b) returns b, and one that follows the constructor or    *)
(* init() returns false.                                                   *)
C14_KeyState ==
    /\ (call.op = "setKeyState" /\ call.args[1] >= 16) =>
           /\ keyboard_ = pre.keyboard_
           /\ lastError_ = pre.lastError_
    /\ (call.op = "isKeyPressed" /\ call.args[1] >= 16) => call.ret = FALSE
    /\ (/\ call.op = "isKeyPressed"
        /\ call.args[1] < 16
        /\ pre.call.op = "setKeyState"
        /\ pre.call.args[1] = call.args[1]) =>
           call.ret = pre.call.args[2]
    /\ (/\ call.op = "isKeyPressed"
        /\ call.args[1] < 16
        /\ pre.call.op \in {"Chip8", "init"}) =>
           call.ret = FALSE

----------------------------------------------------------------------------
(* Claims about single instructions.                                       *)

YAtEntry == (WordAtEntry \div 16) % 16
NAtEntry == WordAtEntry % 16

(* C15: a cycle that fetches 8XY4 with X and Y both in 0..14 leaves        *)
(* (VX + VY) mod 256 in register X, 1 in register 0xF if VX + VY > 255     *)
(* and 0 otherwise, VX and VY the values before the cycle, advances the    *)
(* program counter by 2 and changes no other register.                     *)
C15_AddWithCarry ==
    (/\ IsFetchingCycle
     /\ WordAtEntry \div 4096 = 8
     /\ NAtEntry = 4
     /\ XAtEntry <= 14
     /\ YAtEntry <= 14) =>
        LET sum == pre.registers_[XAtEntry] + pre.registers_[YAtEntry]
        IN  /\ registers_[XAtEntry] = sum % 256
            /\ registers_[15] = (IF sum > 255 THEN 1 ELSE 0)
            /\ programCounter_ = pre.programCounter_ + 2
            /\ \A i \in (0..14) \ {XAtEntry} : registers_[i] = pre.registers_[i]

(* The scenario of the specification: V1 = 0xFF, V2 = 0x01, word 81 24.    *)
C15_Witness ==
    /\ IsCycle
    /\ WordAtEntry = \h8124
    /\ pre.registers_[1] = 255
    /\ pre.registers_[2] = 1
    /\ pre.registers_[15] = 9
    /\ registers_[1] = 0
    /\ registers_[15] = 1
    /\ programCounter_ = 514

(* What a DXYN fetched at entry is asked to draw: its position, its rows   *)
(* and the display cells under the set bits of its sprite.                 *)
IsDraw == IsFetchingCycle /\ WordAtEntry \div 4096 = 13
DrawRowsInMemory == NAtEntry = 0 \/ pre.indexRegister_ + NAtEntry - 1 <= 4095
SpriteBit(r, col) == Bit(CellAt(pre.memory_, pre.indexRegister_ + r), 7 - col)
DrawTargetsOf(rows) ==
    {((pre.registers_[YAtEntry] + r) % 32) * 64 + ((pre.registers_[XAtEntry] + col) % 64) :
        <<r, col>> \in {q \in (0..(rows - 1)) \X (0..7) : SpriteBit(q[1], q[2]) = 1}}
DrawTargets == DrawTargetsOf(NAtEntry)

(* The cycle about to run fetches the word the last cycle fetched, with    *)
(* VX, VY and the index register as they were before the last cycle.       *)
SameDrawAgain ==
    /\ IsDraw
    /\ DrawRowsInMemory
    /\ lastError_ = None
    /\ programCounter_ < 4095
    /\ CellAt(memory_, programCounter_) * 256 + CellAt(memory_, programCounter_ + 1)
           = WordAtEntry
    /\ registers_[XAtEntry] = pre.registers_[XAtEntry]
    /\ registers_[YAtEntry] = pre.registers_[YAtEntry]
    /\ indexRegister_ = pre.indexRegister_

(* C16: when a cycle draws with the DXYN, VX, VY, index register and       *)
(* sprite bytes of the cycle before it, all rows inside memory, the        *)
(* display after the second draw is the display before the first; if that  *)
(* display was clear, the first draw left 0 in register 0xF and the        *)
(* second, for a sprite with a set bit, leaves 1 there.                    *)
C16_DrawTwiceRestores ==
    [][(SameDrawAgain /\ call'.op = "emulateCycle") =>
           /\ frameBuffer_' = pre.frameBuffer_
           /\ (pre.frameBuffer_ = EmptyCells) =>
                  /\ registers_[15] = 0
                  /\ (DrawTargets # {}) => registers_'[15] = 1
                  /\ frameBuffer_' = EmptyCells]_vars

(* Glyph 0 drawn twice at (60, 30) on a clear display: lit and wrapped     *)
(* after the first draw, clear again with the flag set after the second.   *)
C16_Witness ==
    /\ IsDraw
    /\ pre.call.op = "emulateCycle"
    /\ WordAtEntry = \hD125
    /\ pre.registers_[1] = 60
    /\ pre.registers_[2] = 30
    /\ pre.indexRegister_ = 0
    /\ pre.registers_[15] = 0
    /\ CellAt(pre.frameBuffer_, 30 * 64 + 60) = 1
    /\ CellAt(pre.frameBuffer_, 0 * 64 + 60) = 1
    /\ frameBuffer_ = EmptyCells
    /\ registers_[15] = 1

(* C17: a cycle that fetches DXYN with its N sprite rows inside memory     *)
(* toggles (XOR with 1) exactly the display cell ((VX + c) mod 64,         *)
(* (VY + r) mod 32) of every set sprite bit, row r < N, column c < 8, one  *)
(* cell per set bit, and changes no other cell; register 0xF ends as 1 if  *)
(* one of those cells held 1 before the cycle and as 0 otherwise, whatever *)
(* it held before; the redraw flag is set and the program counter has      *)
(* advanced by 2.                                                          *)
C17_DrawTogglesSpritePixels ==
    (IsDraw /\ DrawRowsInMemory) =>
        /\ \A p \in DrawTargets :
               CellAt(frameBuffer_, p) = BitXor(CellAt(pre.frameBuffer_, p), 1)
        /\ \A p \in (DOMAIN frameBuffer_ \cup DOMAIN pre.frameBuffer_) \ DrawTargets :
               CellAt(frameBuffer_, p) = CellAt(pre.frameBuffer_, p)
        /\ Cardinality(DrawTargets) =
               Cardinality({q \in (0..(NAtEntry - 1)) \X (0..7) : SpriteBit(q[1], q[2]) = 1})
        /\ registers_[15] =
               (IF \E p \in DrawTargets : CellAt(pre.frameBuffer_, p) = 1 THEN 1 ELSE 0)
        /\ drawFlag_ = TRUE
        /\ programCounter_ = pre.programCounter_ + 2

(* Glyph 0 drawn at (63, 31), wrapping both ways, over a display with      *)
(* (63, 31) lit: that pixel goes out, (0, 31) comes on, (20, 20) stays     *)
(* lit, and register 0xF goes from 7 to 1.                                 *)
C17_Witness ==
    /\ IsDraw
    /\ WordAtEntry = \hD125
    /\ pre.indexRegister_ = 0
    /\ pre.registers_[1] = 63
    /\ pre.registers_[2] = 31
    /\ pre.registers_[15] = 7
    /\ pre.drawFlag_ = FALSE
    /\ CellAt(pre.frameBuffer_, 31 * 64 + 63) = 1
    /\ CellAt(frameBuffer_, 31 * 64 + 63) = 0
    /\ CellAt(pre.frameBuffer_, 31 * 64 + 0) = 0
    /\ CellAt(frameBuffer_, 31 * 64 + 0) = 1
    /\ CellAt(frameBuffer_, 0 * 64 + 2) = 1
    /\ CellAt(frameBuffer_, 20 * 64 + 20) = 1
    /\ registers_[15] = 1
    /\ drawFlag_ = TRUE

(* C18: a cycle that fetches DXYN with a sprite row at an address >= 4096  *)
(* records InvalidMemoryAccess and leaves the redraw flag set.             *)
C18_FailedDrawSetsRedrawFlag ==
    (IsDraw /\ ~DrawRowsInMemory) =>
        /\ lastError_ = InvalidMemoryAccess
        /\ drawFlag_ = TRUE

(* A cycle that left an error, and what every such cycle leaves alone      *)
(* apart from the registers and the display: memory, the index register,   *)
(* the stack, the stack pointer, the key states and the redraw flag; the   *)
(* program counter moves, by 2, only when a 2NNN found the stack full; the *)
(* timers tick if the cycle fetched.                                       *)
IsFailedCycle == IsCycle /\ lastError_ # None

FailedCycleFrame ==
    /\ memory_ = pre.memory_
    /\ indexRegister_ = pre.indexRegister_
    /\ stack_ = pre.stack_
    /\ stackPointer_ = pre.stackPointer_
    /\ keyboard_ = pre.keyboard_
    /\ drawFlag_ = pre.drawFlag_
    /\ programCounter_ =
           (IF /\ pre.programCounter_ < 4095
               /\ WordAtEntry \div 4096 = 2
               /\ pre.stackPointer_ = 16
            THEN pre.programCounter_ + 2
            ELSE pre.programCounter_)
    /\ delayTimer_ =
           (IF pre.programCounter_ < 4095 THEN Tick(pre.delayTimer_) ELSE pre.delayTimer_)
    /\ soundTimer_ =
           (IF pre.programCounter_ < 4095 THEN Tick(pre.soundTimer_) ELSE pre.soundTimer_)

RowsBeforeFailure ==
    IF pre.indexRegister_ >= 4096 THEN 0 ELSE 4096 - pre.indexRegister_

FailsAtEntry ==
    LET w == WordAtEntry
        family == w \div 4096
        nn == w % 256
        index == pre.indexRegister_
    IN  \/ pre.programCounter_ >= 4095
        \/ family = 0 /\ NAtEntry \notin {0, 14}
        \/ family = 0 /\ NAtEntry = 14 /\ pre.stackPointer_ = 0
        \/ family = 2 /\ pre.stackPointer_ >= 16
        \/ family = 8 /\ NAtEntry \notin {0, 1, 2, 3, 4, 5, 6, 7, 14}
        \/ family = 11 /\ pre.registers_[0] + (w % 4096) >= 4096
        \/ family = 13 /\ NAtEntry > 0 /\ index + NAtEntry - 1 >= 4096
        \/ family = 14 /\ NAtEntry \notin {1, 14}
        \/ family = 15 /\ nn \notin {7, 10, 21, 24, 30, 41, 51, 85, 101}
        \/ family = 15 /\ nn = 41 /\ pre.registers_[XAtEntry] > 15
        \/ family = 15 /\ nn = 51 /\ index + 2 >= 4096
        \/ family = 15 /\ nn \in {85, 101} /\ index + XAtEntry >= 4096

(* C20: after a cycle the last error is other than None exactly when that  *)
(* cycle failed; an error left by an earlier cycle, load or accessor call  *)
(* is gone after a cycle that succeeds.                                    *)
C20_ErrorIsOfThisCycle ==
    IsCycle => ((lastError_ # None) <=> FailsAtEntry)

(* A call that succeeds on a machine holding UnknownOpcode from before.    *)
C20_Witness ==
    /\ IsCycle
    /\ WordAtEntry = \h2300
    /\ pre.lastError_ = UnknownOpcode
    /\ pre.stackPointer_ = 1
    /\ stackPointer_ = 2
    /\ programCounter_ = 768
    /\ lastError_ = None

IsAluCycle(n) ==
    /\ IsFetchingCycle
    /\ WordAtEntry \div 4096 = 8
    /\ NAtEntry = n

(* C21: a cycle that fetches 8XY5 with X and Y both in 0..14 leaves        *)
(* (VX - VY) mod 256 in register X and 1 in register 0xF if VX >= VY, 0    *)
(* otherwise; one that fetches 8XY7 leaves (VY - VX) mod 256 in register X *)
(* and 1 in register 0xF if VY >= VX, 0 otherwise; VX and VY are the       *)
(* values before the cycle, and either cycle advances the program counter  *)
(* by 2 and changes no other register.                                     *)
C21_Subtract ==
    LET vx == pre.registers_[XAtEntry]
        vy == pre.registers_[YAtEntry]
        Frame == /\ programCounter_ = pre.programCounter_ + 2
                 /\ \A i \in (0..14) \ {XAtEntry} : registers_[i] = pre.registers_[i]
    IN  /\ (IsAluCycle(5) /\ XAtEntry <= 14 /\ YAtEntry <= 14) =>
                /\ registers_[XAtEntry] = (vx - vy + 256) % 256
                /\ registers_[15] = (IF vx >= vy THEN 1 ELSE 0)
                /\ Frame
        /\ (IsAluCycle(7) /\ XAtEntry <= 14 /\ YAtEntry <= 14) =>
                /\ registers_[XAtEntry] = (vy - vx + 256) % 256
                /\ registers_[15] = (IF vy >= vx THEN 1 ELSE 0)
                /\ Frame

(* 81 25 with V1 = V2 = 128 leaves 0 and no borrow; 81 27 with V1 = 1 and  *)
(* V2 = 0 leaves 255 and a borrow.                                         *)
C21_Witness ==
    /\ IsCycle
    /\ \/ /\ WordAtEntry = \h8125
          /\ pre.registers_[1] = 128
          /\ pre.registers_[2] = 128
          /\ pre.registers_[15] = 9
          /\ registers_[1] = 0
          /\ registers_[15] = 1
       \/ /\ WordAtEntry = \h8127
          /\ pre.registers_[1] = 1
          /\ pre.registers_[2] = 0
          /\ pre.registers_[15] = 9
          /\ registers_[1] = 255
          /\ registers_[15] = 0

(* C22 as stated: a cycle that fetches 8XY6 with X in 0..14 leaves the     *)
(* low bit of VX in register 0xF and VX divided by 2 in register X; one    *)
(* that fetches 8XYE leaves the high bit of VX in register 0xF and         *)
(* (VX * 2) mod 256 in register X; VX is the value before the cycle, and   *)
(* register Y, when it is another register than X, holds after the cycle   *)
(* what it held before, for every Y in 0..15.                              *)
C22_ShiftAsStated ==
    LET vx == pre.registers_[XAtEntry]
        YKept == YAtEntry # XAtEntry => registers_[YAtEntry] = pre.registers_[YAtEntry]
    IN  /\ (IsAluCycle(6) /\ XAtEntry <= 14) =>
                /\ registers_[15] = vx % 2
                /\ registers_[XAtEntry] = vx \div 2
                /\ YKept
        /\ (IsAluCycle(14) /\ XAtEntry <= 14) =>
                /\ registers_[15] = vx \div 128
                /\ registers_[XAtEntry] = (vx * 2) % 256
                /\ YKept

(* C22: the same results in register 0xF and register X, whatever register *)
(* Y holds; register Y keeps its value when Y is neither X nor 0xF, and    *)
(* so does every register other than X and 0xF.                            *)
C22_Shift ==
    LET vx == pre.registers_[XAtEntry]
        Others == \A i \in (0..14) \ {XAtEntry} : registers_[i] = pre.registers_[i]
    IN  /\ (IsAluCycle(6) /\ XAtEntry <= 14) =>
                /\ registers_[15] = vx % 2
                /\ registers_[XAtEntry] = vx \div 2
                /\ Others
        /\ (IsAluCycle(14) /\ XAtEntry <= 14) =>
                /\ registers_[15] = vx \div 128
                /\ registers_[XAtEntry] = (vx * 2) % 256
                /\ Others

(* 81 F6 with V1 = 255 and VF = 0: the shift reads V1, and register Y,     *)
(* which is register 0xF here, ends as the bit shifted out.                *)
C22_Witness ==
    /\ IsCycle
    /\ WordAtEntry = \h81F6
    /\ pre.registers_[1] = 255
    /\ pre.registers_[15] = 0
    /\ registers_[1] = 127
    /\ registers_[15] = 1

(* The condition of the conditional skip fetched at entry, on the register *)
(* values at entry.                                                        *)
IsSkip ==
    /\ IsFetchingCycle
    /\ \/ WordAtEntry \div 4096 \in {3, 4}
       \/ WordAtEntry \div 4096 \in {5, 9} /\ NAtEntry = 0

SkipCondition ==
    LET vx == pre.registers_[XAtEntry]
        vy == pre.registers_[YAtEntry]
        nn == WordAtEntry % 256
    IN  CASE WordAtEntry \div 4096 = 3 -> vx = nn
          [] WordAtEntry \div 4096 = 4 -> vx # nn
          [] WordAtEntry \div 4096 = 5 -> vx = vy
          [] WordAtEntry \div 4096 = 9 -> vx # vy
          [] OTHER -> FALSE

(* C23: a cycle that fetches 3XNN, 4XNN, 5XY0 or 9XY0 advances the program *)
(* counter by 4 when the condition of the skip holds on the registers at   *)
(* entry and by 2 when it does not, and leaves every register, memory      *)
(* cell, stack slot, the index register and every display pixel as it was. *)
C23_ConditionalSkip ==
    IsSkip =>
        /\ programCounter_ = pre.programCounter_ + (IF SkipCondition THEN 4 ELSE 2)
        /\ registers_ = pre.registers_
        /\ memory_ = pre.memory_
        /\ stack_ = pre.stack_
        /\ indexRegister_ = pre.indexRegister_
        /\ frameBuffer_ = pre.frameBuffer_

(* 41 42 with V1 = 5 skips, and 41 42 with V1 = 0x42 does not.             *)
C23_Witness ==
    /\ IsCycle
    /\ WordAtEntry = \h4142
    /\ \/ pre.registers_[1] = 5 /\ programCounter_ = pre.programCounter_ + 4
       \/ pre.registers_[1] = 66 /\ programCounter_ = pre.programCounter_ + 2

(* C24: a cycle that fetches 1NNN leaves the program counter at NNN; one   *)
(* that fetches BNNN leaves it at NNN + V0 when that sum is below 4096,    *)
(* and otherwise records InvalidMemoryAccess and leaves the program        *)
(* counter where it was; neither changes a stack slot, the stack pointer   *)
(* or a register.                                                          *)
C24_Jump ==
    LET nnn == WordAtEntry % 4096
        target == nnn + pre.registers_[0]
        Frame == /\ stack_ = pre.stack_
                 /\ stackPointer_ = pre.stackPointer_
                 /\ registers_ = pre.registers_
    IN  /\ (IsFetchingCycle /\ WordAtEntry \div 4096 = 1) =>
                /\ programCounter_ = nnn
                /\ lastError_ = None
                /\ Frame
        /\ (IsFetchingCycle /\ WordAtEntry \div 4096 = 11) =>
                /\ IF target < MEMORY_SIZE
                   THEN programCounter_ = target /\ lastError_ = None
                   ELSE programCounter_ = pre.programCounter_ /\ lastError_ = InvalidMemoryAccess
                /\ Frame

(* BF FF with V0 = 1 is refused where it stands; with V0 = 0 it jumps to   *)
(* 4095.                                                                   *)
C24_Witness ==
    /\ IsCycle
    /\ WordAtEntry = \hBFFF
    /\ \/ /\ pre.registers_[0] = 1
          /\ lastError_ = InvalidMemoryAccess
          /\ programCounter_ = pre.programCounter_
       \/ /\ pre.registers_[0] = 0
          /\ lastError_ = None
          /\ programCounter_ = 4095

----------------------------------------------------------------------------
(* Claims about the instructions that use the index register.              *)

IsFCycle(nn) ==
    /\ IsFetchingCycle
    /\ WordAtEntry \div 4096 = 15
    /\ WordAtEntry % 256 = nn

IndexAtEntry == pre.indexRegister_

(* Every memory cell outside first..last holds what it held at entry.      *)
MemoryKeptOutside(first, last) ==
    \A a \in (0..(MEMORY_SIZE - 1)) \ (first..last) :
        CellAt(memory_, a) = CellAt(pre.memory_, a)

(* C25: a cycle that fetches FX33 with I + 2 <= 4095 leaves in memory[I],  *)
(* memory[I + 1] and memory[I + 2] three values of 0..9 that are the       *)
(* hundreds, tens and units of the VX it was entered with, and changes no  *)
(* other memory cell; with I + 2 > 4095 it records InvalidMemoryAccess and *)
(* changes no memory cell.                                                 *)
C25_StoreBcd ==
    IsFCycle(\h33) =>
        LET I == IndexAtEntry
            h == CellAt(memory_, I)
            t == CellAt(memory_, I + 1)
            u == CellAt(memory_, I + 2)
        IN  IF I + 2 <= 4095
            THEN /\ {h, t, u} \subseteq 0..9
                 /\ 100 * h + 10 * t + u = pre.registers_[XAtEntry]
                 /\ MemoryKeptOutside(I, I + 2)
                 /\ lastError_ = None
            ELSE /\ lastError_ = InvalidMemoryAccess
                 /\ memory_ = pre.memory_

(* F1 33 with V1 = 199 and I = 4093 writes 1, 9, 9 to the last three cells *)
(* of memory.                                                              *)
C25_Witness ==
    /\ IsFCycle(\h33)
    /\ WordAtEntry = \hF133
    /\ pre.registers_[1] = 199
    /\ IndexAtEntry = 4093
    /\ CellAt(memory_, 4093) = 1
    /\ CellAt(memory_, 4094) = 9
    /\ CellAt(memory_, 4095) = 9
    /\ lastError_ = None

(* A recorded run: step j is the j-th operation called since Init, entered *)
(* in machine StepEntry(j) and left in machine StepExit(j).                *)
StepCount == Len(history.steps)
StepEntry(j) == history.steps[j].at
StepExit(j) == IF j < StepCount THEN history.steps[j + 1].at ELSE Machine

StepWord(j) ==
    CellAt(StepEntry(j).memory_, StepEntry(j).programCounter_) * 256
    + CellAt(StepEntry(j).memory_, StepEntry(j).programCounter_ + 1)

(* Step j is a cycle that fetched a word and recorded no error.            *)
StepSucceeded(j) ==
    /\ history.steps[j].op = "emulateCycle"
    /\ StepEntry(j).programCounter_ < 4095
    /\ StepExit(j).lastError_ = None

StepX(j) == (StepWord(j) \div 256) % 16

StepIsF(j, nn) == StepWord(j) \div 4096 = 15 /\ StepWord(j) % 256 = nn

C27_SpriteLocation ==
    IsFCycle(\h29) =>
        LET vx == pre.registers_[XAtEntry]
        IN  IF vx <= 15
            THEN /\ indexRegister_ = 5 * vx
                 /\ programCounter_ = pre.programCounter_ + 2
                 /\ lastError_ = None
            ELSE /\ lastError_ = InvalidMemoryAccess
                 /\ indexRegister_ = IndexAtEntry
                 /\ programCounter_ = pre.programCounter_

(* F1 29 with V1 = 15 points the index register at glyph F, cell 75; with  *)
(* V1 = 16 it is refused.                                                  *)
C27_Witness ==
    /\ IsFCycle(\h29)
    /\ WordAtEntry = \hF129
    /\ IndexAtEntry = 768
    /\ \/ pre.registers_[1] = 15 /\ indexRegister_ = 75 /\ programCounter_ = 514
       \/ pre.registers_[1] = 16 /\ indexRegister_ = 768 /\ lastError_ = InvalidMemoryAccess

(* In a recorded run, every step from j on is a cycle that recorded no     *)
(* error and fetched either the word w or a jump.                          *)
OnlyRepeats(j, w) ==
    \A i \in j..StepCount :
        StepSucceeded(i) /\ (StepWord(i) = w \/ StepWord(i) \div 4096 = 1)

----------------------------------------------------------------------------
(* Claims about the key skips and about calls.                             *)

(* C29: a cycle that fetches EX9E advances the program counter by 4 when   *)
(* VX is in 0..15 and key VX is down at entry, and by 2 otherwise; one     *)
(* that fetches EXA1 advances it by 4 when VX is above 15 or key VX is not *)
(* down at entry, and by 2 otherwise; neither records an error, whatever   *)
(* VX is.                                                                  *)
C29_KeySkip ==
    LET vx == pre.registers_[XAtEntry]
        down == vx \in KeysDownAtEntry
    IN  /\ (IsFetchingCycle /\ WordAtEntry \div 4096 = 14 /\ WordAtEntry % 256 = \h9E) =>
                /\ programCounter_ = pre.programCounter_ + (IF down THEN 4 ELSE 2)
                /\ lastError_ = None
        /\ (IsFetchingCycle /\ WordAtEntry \div 4096 = 14 /\ WordAtEntry % 256 = \hA1) =>
                /\ programCounter_ = pre.programCounter_ + (IF down THEN 2 ELSE 4)
                /\ lastError_ = None

(* E1 9E with V1 = 16 and keys 0 and 15 down does not skip and records no  *)
(* error.                                                                  *)
C29_Witness ==
    /\ IsCycle
    /\ WordAtEntry = \hE19E
    /\ pre.registers_[1] = 16
    /\ KeysDownAtEntry = {0, 15}
    /\ programCounter_ = pre.programCounter_ + 2
    /\ lastError_ = None

(* In a recorded run, a step that pushed a return address and a step that  *)
(* popped one: a cycle that recorded no error on a 2NNN, and on a word the *)
(* 0xxx handler takes for 00EE.                                            *)
StepCalled(j) == StepSucceeded(j) /\ StepWord(j) \div 4096 = 2
StepReturned(j) ==
    StepSucceeded(j) /\ StepWord(j) \div 4096 = 0 /\ StepWord(j) % 16 = 14

(* The call a return is matched with: searching the steps from j down, the *)
(* first call that is not matched with one of the open returns passed on   *)
(* the way; 0 when there is none.                                          *)
RECURSIVE MatchingCall(_, _)
MatchingCall(j, open) ==
    IF j = 0 THEN 0
    ELSE IF StepCalled(j)
         THEN IF open = 0 THEN j ELSE MatchingCall(j - 1, open - 1)
         ELSE IF StepReturned(j)
              THEN MatchingCall(j - 1, open + 1)
              ELSE MatchingCall(j - 1, open)

----------------------------------------------------------------------------
(* Claims about what every operation preserves.                            *)

(* C31: the stack pointer is in 0..16 in every state; setStackPointer      *)
(* called with a value of 0..16 sets the pointer to it, and called with a  *)
(* larger value records StackOverflow and leaves the pointer as it was;    *)
(* setStack called with a slot of 0..15 writes that slot, and called with  *)
(* a larger one records StackOverflow and leaves the stack as it was; a    *)
(* cycle moves the pointer by one at most.                                 *)
C31_StackPointerRange ==
    /\ stackPointer_ \in 0..STACK_SIZE
    /\ call.op = "setStackPointer" =>
            IF call.args[1] <= STACK_SIZE
            THEN stackPointer_ = call.args[1] /\ lastError_ = None
            ELSE stackPointer_ = pre.stackPointer_ /\ lastError_ = StackOverflow
    /\ call.op = "setStack" =>
            IF call.args[1] <= STACK_SIZE - 1
            THEN /\ stack_ = [pre.stack_ EXCEPT ![call.args[1]] = call.args[2]]
                 /\ lastError_ = None
            ELSE stack_ = pre.stack_ /\ lastError_ = StackOverflow
    /\ IsCycle =>
            stackPointer_ \in {pre.stackPointer_ - 1, pre.stackPointer_, pre.stackPointer_ + 1}

(* setStackPointer(16) is accepted, the call fetched next finds the stack  *)
(* full and leaves the pointer at 16, and setStackPointer(17) is then      *)
(* refused.                                                                *)
C31_Witness ==
    /\ call.op = "setStackPointer"
    /\ call.args = <<17>>
    /\ pre.call.op = "emulateCycle"
    /\ pre.lastError_ = StackOverflow
    /\ pre.stackPointer_ = 16
    /\ stackPointer_ = 16
    /\ lastError_ = StackOverflow

(* The flag of the flag-producing 8XYN fetched at entry, on the register   *)
(* values at entry: the carry of 8XY4, the not-borrow of 8XY5 and 8XY7,    *)
(* the bit shifted out by 8XY6 and 8XYE.                                   *)
IsFlagCycle == IsFetchingCycle /\ WordAtEntry \div 4096 = 8 /\ NAtEntry \in {4, 5, 6, 7, 14}

FlagAtEntry ==
    LET vx == pre.registers_[XAtEntry]
        vy == pre.registers_[YAtEntry]
    IN  CASE NAtEntry = 4 -> IF vx + vy > 255 THEN 1 ELSE 0
          [] NAtEntry = 5 -> IF vx >= vy THEN 1 ELSE 0
          [] NAtEntry = 6 -> vx % 2
          [] NAtEntry = 7 -> IF vy >= vx THEN 1 ELSE 0
          [] NAtEntry = 14 -> vx \div 128
          [] OTHER -> 0

(* C32: a cycle that fetches 8XY4, 8XY5, 8XY6, 8XY7 or 8XYE, for every X   *)
(* in 0..15, leaves in register 0xF the flag of the instruction computed   *)
(* from the operands at entry, a value of 0 or 1.                          *)
C32_FlagRegisterHoldsFlag ==
    IsFlagCycle =>
        /\ registers_[15] = FlagAtEntry
        /\ registers_[15] \in {0, 1}

(* C33: a cycle that fetches 8XF4, 8XF5 or 8XF7 with X in 0..14 leaves in  *)
(* register X the sum or difference of the values registers X and 0xF held *)
(* at entry: (VX + VF) mod 256, (VX - VF) mod 256 and (VF - VX) mod 256.   *)
C33_FlagOperandIsOldValue ==
    (IsFlagCycle /\ NAtEntry \in {4, 5, 7} /\ YAtEntry = 15 /\ XAtEntry <= 14) =>
        LET vx == pre.registers_[XAtEntry]
            vf == pre.registers_[15]
        IN  registers_[XAtEntry] =
                CASE NAtEntry = 4 -> (vx + vf) % 256
                  [] NAtEntry = 5 -> (vx - vf + 256) % 256
                  [] NAtEntry = 7 -> (vf - vx + 256) % 256

(* C34: every cell of the display buffer holds 0 or 1, and an operation    *)
(* that leaves the display buffer other than it found it is a cycle that   *)
(* fetched 00E0 or DXYN, or a reset.                                       *)
C34_DisplayCellsAreBits ==
    /\ \A p \in 0..(DISPLAY_SIZE - 1) : CellAt(frameBuffer_, p) \in {0, 1}
    /\ frameBuffer_ # pre.frameBuffer_ =>
            \/ call.op = "init"
            \/ /\ IsFetchingCycle
               /\ \/ WordAtEntry = \h00E0
                  \/ WordAtEntry \div 4096 = 13

----------------------------------------------------------------------------
(* Claims about the redraw flag, the timers and failed cycles over several *)
(* operations.                                                             *)

(* C35: a cycle entered with the redraw flag set leaves it set, and so     *)
(* would a cycle on the machine as it is now with the flag set, whatever   *)
(* it fetches; an operation that lowers the flag is setDrawFlag(false) or  *)
(* a reset; in the loop of main() setDrawFlag(false) is called only right  *)
(* after a render that found the flag set.                                 *)
C35_RedrawFlagStaysSet ==
    /\ (IsCycle /\ pre.drawFlag_) => drawFlag_
    /\ \A randomNumber \in RandomSamples :
           emulateCycle([Machine EXCEPT !.drawFlag_ = TRUE], randomNumber).drawFlag_
    /\ (pre.drawFlag_ /\ ~drawFlag_) => call.op \in {"setDrawFlag", "init"}
    /\ call.op = "setDrawFlag" =>
           /\ call.args = <<FALSE>>
           /\ pre.call.op = "render"
           /\ pre.call.ret = TRUE
           /\ pre.drawFlag_

(* The draw of the ROM has set the flag, a key event came in, render       *)
(* presented the frame and the flag was lowered after it.                  *)
C35_Witness ==
    /\ call.op = "setDrawFlag"
    /\ pre.call.op = "render"
    /\ pre.drawFlag_
    /\ ~drawFlag_
    /\ CellAt(frameBuffer_, 5 * 64 + 5) = 1
    /\ keyboard_[5] = 1

(* C36: a cycle that fetches FX07 leaves in register X the delay timer as  *)
(* it was at entry, before the tick of that cycle, and the timer one       *)
(* lower; a cycle that fetches FX15 with VX = v leaves the delay timer at  *)
(* v - 1 if v > 0 and at 0 if v = 0, and one that fetches FX18 leaves the  *)
(* sound timer so.                                                         *)
C36_TickFollowsInstruction ==
    LET v == pre.registers_[XAtEntry]
    IN  /\ IsFCycle(\h07) =>
                /\ registers_[XAtEntry] = pre.delayTimer_
                /\ delayTimer_ = Tick(pre.delayTimer_)
        /\ IsFCycle(\h15) => delayTimer_ = (IF v > 0 THEN v - 1 ELSE 0)
        /\ IsFCycle(\h18) => soundTimer_ = (IF v > 0 THEN v - 1 ELSE 0)

(* F1 07 with the delay timer at 5 leaves V1 = 5 and the timer at 4.       *)
C36_Witness ==
    /\ IsFCycle(\h07)
    /\ WordAtEntry = \hF107
    /\ pre.delayTimer_ = 5
    /\ pre.registers_[1] = 255
    /\ registers_[1] = 5
    /\ delayTimer_ = 4

(* A timer that held v, k ticks later.                                     *)
TickedBy(v, k) == IF v > k THEN v - k ELSE 0

(* In a recorded run, every step after step j is a cycle.                  *)
OnlyCyclesAfter(j) ==
    \A i \in (j + 1)..StepCount : history.steps[i].op = "emulateCycle"

(* C37: in a recorded run, once a cycle has recorded UnknownOpcode or      *)
(* StackUnderflow and only cycles have followed it, the last error is      *)
(* still that error and the program counter, the stack pointer, the        *)
(* registers and memory are as that cycle left them, while each timer has  *)
(* ticked once per cycle down to 0; a cycle that records StackOverflow has *)
(* moved the program counter on by 2.                                      *)
C37_DeadStop ==
    /\ \A j \in 1..StepCount :
            (/\ history.steps[j].op = "emulateCycle"
             /\ StepExit(j).lastError_ \in {UnknownOpcode, StackUnderflow}
             /\ OnlyCyclesAfter(j)) =>
                /\ lastError_ = StepExit(j).lastError_
                /\ programCounter_ = StepExit(j).programCounter_
                /\ stackPointer_ = StepExit(j).stackPointer_
                /\ registers_ = StepExit(j).registers_
                /\ memory_ = StepExit(j).memory_
                /\ delayTimer_ = TickedBy(StepExit(j).delayTimer_, StepCount - j)
                /\ soundTimer_ = TickedBy(StepExit(j).soundTimer_, StepCount - j)
    /\ (IsCycle /\ lastError_ = StackOverflow) =>
            programCounter_ = pre.programCounter_ + 2

(* 61 09, F1 15, F1 18, then 81 28: the fourth cycle records UnknownOpcode *)
(* with the timers at 6 and 7, and ten cycles later the machine is still   *)
(* at 0x206 with that error and both timers at 0.                          *)
C37_Witness ==
    /\ StepCount = 14
    /\ StepWord(4) = \h8128
    /\ StepExit(4).lastError_ = UnknownOpcode
    /\ StepExit(4).delayTimer_ = 6
    /\ StepExit(4).soundTimer_ = 7
    /\ lastError_ = UnknownOpcode
    /\ programCounter_ = 518
    /\ delayTimer_ = 0
    /\ soundTimer_ = 0

----------------------------------------------------------------------------
(* The places one cycle indexes.  Each operator takes the machine as the   *)
(* handler finds it, opcode_ fetched, and gives the indices the handler    *)
(* applies to one array, under the conditions the code tests before it     *)
(* indexes.                                                                *)

(* The rows of a sprite handleOpcodeDxxx reads, chip8.cpp lines 589-595:   *)
(* the loop returns at the first row whose address is beyond memory.       *)
SpriteRowsRead(d) ==
    {row \in 0..(OpN(d) - 1) :
        \A q \in 0..row : ~(d.indexRegister_ + q >= MEMORY_SIZE)}

(* pixelIndex of handleOpcodeDxxx, lines 597-606, for the set bits of the  *)
(* rows read.                                                              *)
SpriteCells(d) ==
    LET xPos == d.registers_[OpX(d)]
        yPos == d.registers_[OpY(d)]
    IN  UNION {{((yPos + row) % DISPLAY_HEIGHT) * DISPLAY_WIDTH
                    + ((xPos + col) % DISPLAY_WIDTH) :
                  col \in {k \in 0..7 :
                              Bit(MemAt(d, d.indexRegister_ + row), 7 - k) = 1}} :
               row \in SpriteRowsRead(d)}

(* memory_[...] in the handlers: the sprite rows of DXYN, the three cells  *)
(* of FX33 (lines 696-703) and the cells of FX55 and FX65 (lines 708-725). *)
MemoryIndices(d) ==
    LET I == d.indexRegister_
        x == OpX(d)
    IN  CASE OpFamily(d) = 13 -> {I + row : row \in SpriteRowsRead(d)}
          [] OpFamily(d) = 15 /\ OpNN(d) = 51 ->
                IF I + 2 >= MEMORY_SIZE THEN {} ELSE {I, I + 1, I + 2}
          [] OpFamily(d) = 15 /\ OpNN(d) \in {85, 101} ->
                IF I + x >= MEMORY_SIZE THEN {} ELSE {I + i : i \in 0..x}
          [] OTHER -> {}

(* registers_[...] in the handlers: X and Y are nibbles of opcode_, 0xF is *)
(* the flag, 0 the base of BNNN, and FX55 and FX65 index 0..X.             *)
RegisterIndices(d) ==
    LET x == OpX(d)
        y == OpY(d)
        n == OpN(d)
    IN  CASE OpFamily(d) \in {3, 4, 6, 7, 12} -> {x}
          [] OpFamily(d) \in {5, 9} -> {x, y}
          [] OpFamily(d) = 8 /\ n \in {0, 1, 2, 3} -> {x, y}
          [] OpFamily(d) = 8 /\ n \in {4, 5, 7} -> {x, y, 15}
          [] OpFamily(d) = 8 /\ n \in {6, 14} -> {x, 15}
          [] OpFamily(d) = 11 -> {0}
          [] OpFamily(d) = 13 -> {x, y, 15}
          [] OpFamily(d) = 14 /\ n \in {1, 14} -> {x}
          [] OpFamily(d) = 15 /\ OpNN(d) \in {7, 21, 24, 30, 41, 51} -> {x}
          [] OpFamily(d) = 15 /\ OpNN(d) = 10 ->
                IF PressedKeys(d) = {} THEN {} ELSE {x}
          [] OpFamily(d) = 15 /\ OpNN(d) \in {85, 101} ->
                IF d.indexRegister_ + x >= MEMORY_SIZE THEN {} ELSE 0..x
          [] OTHER -> {}

(* stack_[stackPointer_] of handleOpcode2xxx, line 356, and of the return  *)
(* in handleOpcode0xxx, lines 315-320, which decrements the pointer first. *)
StackIndices(d) ==
    CASE OpFamily(d) = 2 ->
            IF d.stackPointer_ >= STACK_SIZE \/ ~isValidMemoryAddress(OpNNN(d))
            THEN {}
            ELSE {d.stackPointer_}
      [] OpFamily(d) = 0 /\ OpN(d) = 14 ->
            IF d.stackPointer_ = 0 THEN {} ELSE {d.stackPointer_ - 1}
      [] OTHER -> {}

(* keyboard_[...]: keyboard_[registers_[x]] of handleOpcodeExxx, lines     *)
(* 625 and 633, behind the test of registers_[x] against KEYBOARD_SIZE,    *)
(* and keyboard_[i] of the FX0A loop, lines 661-667, which stops at the    *)
(* first key down.                                                         *)
KeyIndices(d) ==
    LET vx == d.registers_[OpX(d)]
    IN  CASE OpFamily(d) = 14 /\ OpN(d) = 14 ->
                IF vx < KEYBOARD_SIZE THEN {vx} ELSE {}
          [] OpFamily(d) = 14 /\ OpN(d) = 1 ->
                IF vx >= KEYBOARD_SIZE THEN {} ELSE {vx}
          [] OpFamily(d) = 15 /\ OpNN(d) = 10 ->
                IF PressedKeys(d) = {}
                THEN 0..(KEYBOARD_SIZE - 1)
                ELSE 0..LowestOf(PressedKeys(d))
          [] OTHER -> {}

(* frameBuffer_[...]: every cell for the fill of line 309, the cells under *)
(* the set bits of the sprite for DXYN.                                    *)
CellIndices(d) ==
    CASE OpFamily(d) = 0 /\ OpN(d) = 0 -> 0..(DISPLAY_SIZE - 1)
      [] OpFamily(d) = 13 -> SpriteCells(d)
      [] OTHER -> {}

InstructionIndices(d) ==
    [memory_ |-> MemoryIndices(d), registers_ |-> RegisterIndices(d),
     stack_ |-> StackIndices(d), keyboard_ |-> KeyIndices(d),
     frameBuffer_ |-> CellIndices(d)]

(* What emulateCycle indexes from machine c: nothing when the check of     *)
(* lines 99-103 refuses the program counter, else the two cells of the     *)
(* fetch, line 106, and what the handler of the fetched word indexes.      *)
StepIndices(c) ==
    IF c.programCounter_ >= MEMORY_SIZE - 1
    THEN [memory_ |-> {}, registers_ |-> {}, stack_ |-> {}, keyboard_ |-> {},
          frameBuffer_ |-> {}]
    ELSE LET t == InstructionIndices(Fetch(c))
         IN  [t EXCEPT !.memory_ =
                  @ \cup {c.programCounter_, c.programCounter_ + 1}]

(* Every index of t is an index of its array.                              *)
InRange(t) ==
    /\ t.memory_ \subseteq 0..(MEMORY_SIZE - 1)
    /\ t.registers_ \subseteq 0..(REGISTER_COUNT - 1)
    /\ t.stack_ \subseteq 0..(STACK_SIZE - 1)
    /\ t.keyboard_ \subseteq 0..(KEYBOARD_SIZE - 1)
    /\ t.frameBuffer_ \subseteq 0..(DISPLAY_SIZE - 1)

(* The cells of a byte array that differ between old and new, and the      *)
(* slots of a register file or stack that do.                              *)
CellsChanged(old, new) ==
    {a \in (DOMAIN old) \cup (DOMAIN new) : CellAt(old, a) # CellAt(new, a)}
SlotsChanged(old, new) == {i \in DOMAIN old : old[i] # new[i]}

(* C38: from every state reached, the cycle that comes next, and the       *)
(* handler of every sampled instruction word run on that state, applies    *)
(* to memory only indices of 0..4095, to the registers, the stack and the  *)
(* keys only indices of 0..15 and to the display only indices of 0..2047;  *)
(* and the cycle that led to the state changed no memory cell, register,   *)
(* stack slot or display cell but at an index it applied, and left no      *)
(* cell outside memory or the display.                                     *)
C38_IndicesInRange ==
    /\ InRange(StepIndices(Machine))
    /\ \A w \in WordSamples :
           InRange(InstructionIndices([Machine EXCEPT !.opcode_ = w]))
    /\ DOMAIN memory_ \subseteq 0..(MEMORY_SIZE - 1)
    /\ DOMAIN frameBuffer_ \subseteq 0..(DISPLAY_SIZE - 1)
    /\ IsCycle =>
          LET t == StepIndices(pre)
          IN  /\ CellsChanged(pre.memory_, memory_) \subseteq t.memory_
              /\ CellsChanged(pre.frameBuffer_, frameBuffer_) \subseteq t.frameBuffer_
              /\ SlotsChanged(pre.registers_, registers_) \subseteq t.registers_
              /\ SlotsChanged(pre.stack_, stack_) \subseteq t.stack_

(* D1 25 with the index register at 4094 reads the two rows that are in   *)
(* memory, draws their set bits and stops with InvalidMemoryAccess; F1 33 *)
(* run from the state it leaves would index no memory cell.               *)
C38_Witness ==
    /\ IsDraw
    /\ WordAtEntry = \hD125
    /\ pre.indexRegister_ = 4094
    /\ StepIndices(pre).memory_ = {512, 513, 4094, 4095}
    /\ StepIndices(pre).frameBuffer_ # {}
    /\ CellsChanged(pre.frameBuffer_, frameBuffer_) = StepIndices(pre).frameBuffer_
    /\ lastError_ = InvalidMemoryAccess
    /\ InstructionIndices([Machine EXCEPT !.opcode_ = \hF133]).memory_ = {}

----------------------------------------------------------------------------
(* The disassembler, disassembler.cpp.                                     *)

(* Disassembler::disassembleInstruction, lines 5-72.  The text it returns  *)
(* is held as the mnemonic, the form of the operands and their values;     *)
(* formatHex and formatRegister only print the values.                     *)
disassembleInstruction(opcode) ==
    LET first_nibble == opcode \div 4096
        x == (opcode \div 256) % 16
        y == (opcode \div 16) % 16
        n == opcode % 16
        nn == opcode % 256
        nnn == opcode % 4096
    IN  CASE first_nibble = 0 ->
                (CASE nn = \hE0 -> <<"CLS", "">>
                   [] nn = \hEE -> <<"RET", "">>
                   [] OTHER -> <<"SYS", "NNN", nnn>>)
          [] first_nibble = 1 -> <<"JP", "NNN", nnn>>
          [] first_nibble = 2 -> <<"CALL", "NNN", nnn>>
          [] first_nibble = 3 -> <<"SE", "Vx, NN", x, nn>>
          [] first_nibble = 4 -> <<"SNE", "Vx, NN", x, nn>>
          [] first_nibble = 5 -> <<"SE", "Vx, Vy", x, y>>
          [] first_nibble = 6 -> <<"LD", "Vx, NN", x, nn>>
          [] first_nibble = 7 -> <<"ADD", "Vx, NN", x, nn>>
          [] first_nibble = 8 ->
                (CASE n = 0 -> <<"LD", "Vx, Vy", x, y>>
                   [] n = 1 -> <<"OR", "Vx, Vy", x, y>>
                   [] n = 2 -> <<"AND", "Vx, Vy", x, y>>
                   [] n = 3 -> <<"XOR", "Vx, Vy", x, y>>
                   [] n = 4 -> <<"ADD", "Vx, Vy", x, y>>
                   [] n = 5 -> <<"SUB", "Vx, Vy", x, y>>
                   [] n = 6 -> <<"SHR", "Vx {, Vy}", x, y>>
                   [] n = 7 -> <<"SUBN", "Vx, Vy", x, y>>
                   [] n = 14 -> <<"SHL", "Vx {, Vy}", x, y>>
                   [] OTHER -> <<"UNK", "opcode", opcode>>)
          [] first_nibble = 9 -> <<"SNE", "Vx, Vy", x, y>>
          [] first_nibble = 10 -> <<"LD", "I, NNN", nnn>>
          [] first_nibble = 11 -> <<"JP", "V0, NNN", nnn>>
          [] first_nibble = 12 -> <<"RND", "Vx, NN", x, nn>>
          [] first_nibble = 13 -> <<"DRW", "Vx, Vy, N", x, y, n>>
          [] first_nibble = 14 ->
                (CASE nn = \h9E -> <<"SKP", "Vx", x>>
                   [] nn = \hA1 -> <<"SKNP", "Vx", x>>
                   [] OTHER -> <<"UNK", "opcode", opcode>>)
          [] first_nibble = 15 ->
                (CASE nn = \h07 -> <<"LD", "Vx, DT", x>>
                   [] nn = \h0A -> <<"LD", "Vx, K", x>>
                   [] nn = \h15 -> <<"LD", "DT, Vx", x>>
                   [] nn = \h18 -> <<"LD", "ST, Vx", x>>
                   [] nn = \h1E -> <<"ADD", "I, Vx", x>>
                   [] nn = \h29 -> <<"LD", "F, Vx", x>>
                   [] nn = \h33 -> <<"LD", "B, Vx", x>>
                   [] nn = \h55 -> <<"LD", "[I], Vx", x>>
                   [] nn = \h65 -> <<"LD", "Vx, [I]", x>>
                   [] OTHER -> <<"UNK", "opcode", opcode>>)

(* The instruction the engine runs for a word, by the switch of            *)
(* emulateCycle on the top nibble and the switches of handleOpcode0xxx,    *)
(* handleOpcode8xxx and handleOpcodeExxx on the low nibble and of          *)
(* handleOpcodeFxxx on the low byte (chip8.cpp lines 108-160, 307, 451,    *)
(* 623, 654), under the names the disassembler gives the instructions;     *)
(* "UNK" where the engine takes a default case and records UnknownOpcode.  *)
ExecutedInstruction(opcode) ==
    LET family == opcode \div 4096
        n == opcode % 16
        nn == opcode % 256
    IN  CASE family = 0 ->
                (CASE n = 0 -> <<"CLS", "">>
                   [] n = 14 -> <<"RET", "">>
                   [] OTHER -> <<"UNK", "opcode">>)
          [] family = 1 -> <<"JP", "NNN">>
          [] family = 2 -> <<"CALL", "NNN">>
          [] family = 3 -> <<"SE", "Vx, NN">>
          [] family = 4 -> <<"SNE", "Vx, NN">>
          [] family = 5 -> <<"SE", "Vx, Vy">>
          [] family = 6 -> <<"LD", "Vx, NN">>
          [] family = 7 -> <<"ADD", "Vx, NN">>
          [] family = 8 ->
                (CASE n = 0 -> <<"LD", "Vx, Vy">>
                   [] n = 1 -> <<"OR", "Vx, Vy">>
                   [] n = 2 -> <<"AND", "Vx, Vy">>
                   [] n = 3 -> <<"XOR", "Vx, Vy">>
                   [] n = 4 -> <<"ADD", "Vx, Vy">>
                   [] n = 5 -> <<"SUB", "Vx, Vy">>
                   [] n = 6 -> <<"SHR", "Vx {, Vy}">>
                   [] n = 7 -> <<"SUBN", "Vx, Vy">>
                   [] n = 14 -> <<"SHL", "Vx {, Vy}">>
                   [] OTHER -> <<"UNK", "opcode">>)
          [] family = 9 -> <<"SNE", "Vx, Vy">>
          [] family = 10 -> <<"LD", "I, NNN">>
          [] family = 11 -> <<"JP", "V0, NNN">>
          [] family = 12 -> <<"RND", "Vx, NN">>
          [] family = 13 -> <<"DRW", "Vx, Vy, N">>
          [] family = 14 ->
                (CASE n = 14 -> <<"SKP", "Vx">>
                   [] n = 1 -> <<"SKNP", "Vx">>
                   [] OTHER -> <<"UNK", "opcode">>)
          [] family = 15 ->
                (CASE nn = \h07 -> <<"LD", "Vx, DT">>
                   [] nn = \h0A -> <<"LD", "Vx, K">>
                   [] nn = \h15 -> <<"LD", "DT, Vx">>
                   [] nn = \h18 -> <<"LD", "ST, Vx">>
                   [] nn = \h1E -> <<"ADD", "I, Vx">>
                   [] nn = \h29 -> <<"LD", "F, Vx">>
                   [] nn = \h33 -> <<"LD", "B, Vx">>
                   [] nn = \h55 -> <<"LD", "[I], Vx">>
                   [] nn = \h65 -> <<"LD", "Vx, [I]">>
                   [] OTHER -> <<"UNK", "opcode">>)

(* The mnemonic and operand form of what the disassembler returns.         *)
LabelOf(opcode) == SubSeq(disassembleInstruction(opcode), 1, 2)

(* The engine took a default case for the word of this cycle exactly when  *)
(* ExecutedInstruction says so.                                            *)
EngineDecodesAsListed ==
    IsFetchingCycle =>
        ((lastError_ = UnknownOpcode) <=> (ExecutedInstruction(WordAtEntry)[1] = "UNK"))

(* C39: for the word a cycle fetches, the disassembler gives the mnemonic  *)
(* and operand form of the instruction the engine runs for it, and gives   *)
(* "UNK", or "SYS" for a 0NNN it knows no instruction for, exactly when    *)
(* the engine records UnknownOpcode.                                       *)
C39_DecodeAgreement ==
    IsFetchingCycle =>
        /\ (LabelOf(WordAtEntry)[1] \in {"UNK", "SYS"}) <=> (lastError_ = UnknownOpcode)
        /\ lastError_ # UnknownOpcode =>
               LabelOf(WordAtEntry) = ExecutedInstruction(WordAtEntry)

(* The cells Disassembler::disassembleMemory reads, disassembler.cpp lines *)
(* 83-85: memory[address] and memory[address + 1] for the 16-bit address   *)
(* start_address + i * 2 of each of the count instructions.  The function  *)
(* tests no address against the size of memory.                            *)
disassembleMemoryReads(start_address, count) ==
    UNION {{U16(start_address + i * 2), U16(start_address + i * 2) + 1} :
               i \in 0..(count - 1)}

(* The cells GuiApplication::renderDisassembler has disassembleMemory      *)
(* read for machine c, gui_application.cpp lines 479-485: 32 instructions  *)
(* from 20 bytes before the program counter, or from 0x200.                *)
renderDisassemblerReads(c) ==
    LET current_pc == c.programCounter_
        start_address == IF current_pc >= 20 THEN current_pc - 20 ELSE 512
    IN  disassembleMemoryReads(start_address, 32)

(* C40: in every state reached, the disassembly window of the inspector    *)
(* reads only memory cells of 0..4095.                                     *)
C40_WindowInMemory ==
    renderDisassemblerReads(Machine) \subseteq 0..(MEMORY_SIZE - 1)
====
